---- MODULE Spec2Model ----
(***************************************************************************)
(* Verification model of SubTubeMCP's text pipeline and handlers:          *)
(*   - SubtitleHandler.processTranscript  (adaptive sampler)               *)
(*   - SubtitleHandler.cleanSubtitleText  (text normalizer)                *)
(*   - SubtitleHandler.parseSrtToSegments / parseVttToSegments             *)
(*   - CommentFilter.shouldFilterComment / filterComments / getFilterStats *)
(*   - CommentHandler.getComments / fetchAllComments                       *)
(*   - SubtitleHandler.getTranscript / getTranscriptViaYtDlp /             *)
(*     downloadSubtitles, and spawnAsync                                   *)
(*                                                                         *)
(* Strings are sequences of UTF-16 code units (integers), so character     *)
(* ranges, String.fromCharCode and toLowerCase are computed, not assumed.  *)
(* Array positions are JavaScript positions (0-based); At(s, i) reads one. *)
(***************************************************************************)
EXTENDS Integers, Sequences, FiniteSets, TLC

VARIABLES
  \* ---- processTranscript ----
  pcS,          \* "idle" | "returned"
  segments,     \* the input segment array (each segment named by its input index)
  mode,         \* the mode argument
  maxSegments,  \* the maxSegments argument
  result,       \* the returned record
  \* ---- cleanSubtitleText ----
  pcC,          \* "idle" | "cleaned"
  rawText,      \* the text argument
  cleanedOnce,  \* cleanSubtitleText(rawText)
  cleanedTwice, \* cleanSubtitleText(cleanSubtitleText(rawText))
  \* ---- parseSrtToSegments / parseVttToSegments ----
  pcP,          \* "idle" | "srt" | "vtt" | "done"
  cues,         \* the cues the caption file was written from
  lines,        \* const lines = content.split('\n')
  lineIdx,      \* let i
  parsed,       \* const segments
  lastText,     \* let lastText
  \* ---- CommentFilter ----
  pcF,          \* "idle" | "classified" | "filtered" | "stats"
  comment,      \* the comment argument of shouldFilterComment
  options,      \* the options argument
  videoAuthorChannelId,   \* the videoAuthorChannelId argument
  shouldFilter, \* the verdict shouldFilterComment returned
  commentsAtCall,   \* the comment objects of the comments argument, as passed
  comments,     \* the same objects now
  returned,     \* the array filterComments returned
  stats,        \* the record getFilterStats returned
  \* ---- CommentHandler.fetchAllComments ----
  pcA,          \* "idle" | "fetching" | "collected" | "returned" | "threw"
  fetchArgs,    \* the arguments lang (given or not) and noFilter
  pageCount,    \* let pageCount: the commentThreads.list requests made
  nextPageToken,    \* let nextPageToken
  response,     \* const response, the last one received
  allComments,  \* const allComments, by its length
  fetchResult,  \* what the call returned or threw
  \* ---- the pattern tables of CommentFilter across calls ----
  lastIndex,    \* lastIndex of the g-flag patterns: 3 of SPAM, 4 of NOISE, 1 of BOT
  scanCall,     \* the arguments of the last shouldFilterComment call on these tables
  scanVerdict,  \* what that call returned
  \* ---- SubtitleHandler.getTranscript ----
  pcT,          \* "idle" | "requested" | "ja" | "default" | "ytDlpInTry" | "ytDlpInCatch" | "returned" | "threw"
  transcriptArgs,   \* the arguments lang and mode
  attempts,     \* the YoutubeTranscript.fetchTranscript calls made, with their outcomes
  ytDlpCalls,   \* how many times getTranscriptViaYtDlp was entered
  transcriptResult, \* what the call returned or threw
  \* ---- spawnAsync ----
  pcW,          \* the child: "idle" (not spawned) | "running" | "closed"
  spawnOptions, \* options?.timeout: given or not, and its value
  timer,        \* const timer: "none" (null) | "armed" | "cleared" | "fired"
  timedOut,     \* let timedOut
  stdout,       \* let stdout, as the sequence of chunks appended
  stderr,       \* let stderr, likewise
  promise,      \* the returned promise
  sigterms,     \* how many times child.kill('SIGTERM') was called
  events,       \* the callbacks that ran, in order
  \* ---- getTranscriptViaYtDlp / downloadSubtitles and os.tmpdir() ----
  tmpDirs,      \* the yt-* directories that exist in os.tmpdir()
  requests,     \* per request in flight: which method, its locals, the await it is at
  sweep,        \* per request: the directory names its catch block has still to remove
  \* ---- CommentHandler.getComments ----
  pcG,          \* "idle" | "lookup" | "lookupAll" | "listing" | "returned" | "threw"
  commentsArgs, \* the arguments videoId, fetchAll and noFilter
  cleanVideoId, \* const cleanVideoId
  videoAuthor,  \* let videoAuthorChannelId, of the method that filters
  fetchedComments,  \* the comments received that pass the language filter
  commentsResult    \* the comments of the response, each with its position in fetchedComments

samplerVars == <<pcS, segments, mode, maxSegments, result>>
cleanerVars == <<pcC, rawText, cleanedOnce, cleanedTwice>>
parserVars == <<pcP, cues, lines, lineIdx, parsed, lastText>>
filterVars == <<pcF, comment, options, videoAuthorChannelId, shouldFilter,
               commentsAtCall, comments, returned, stats>>
fetcherVars == <<pcA, fetchArgs, pageCount, nextPageToken, response, allComments,
                fetchResult>>
scannerVars == <<lastIndex, scanCall, scanVerdict>>
transcriptVars == <<pcT, transcriptArgs, attempts, ytDlpCalls, transcriptResult>>
spawnVars == <<pcW, spawnOptions, timer, timedOut, stdout, stderr, promise, sigterms,
              events>>
tempVars == <<tmpDirs, requests, sweep>>
commentsVars == <<pcG, commentsArgs, cleanVideoId, videoAuthor, fetchedComments,
                 commentsResult>>

vars == <<samplerVars, cleanerVars, parserVars, filterVars, fetcherVars,
           scannerVars, transcriptVars, spawnVars, tempVars, commentsVars>>

(***************************************************************************)
(* Bounds                                                                  *)
(***************************************************************************)
MaxSegs == 22          \* longest segment list
NegBudgets == 3       \* maxSegments is tried from -NegBudgets ...
MaxBudget == 20        \* ... up to MaxBudget
MaxPieces == 3        \* most pieces a raw caption text is assembled from
MaxCues == 3          \* most cues in a caption file
MaxLines == 3         \* most lines of a caption file given line by line
MaxComments == 2      \* most top-level comments in a list
MaxReplies == 1       \* most replies of a top-level comment
MaxChunks == 2        \* most 'data' chunks a child writes
MaxRequests == 2      \* most requests in flight at once

(***************************************************************************)
(* JavaScript array helpers                                                *)
(***************************************************************************)
Max2(a, b) == IF a > b THEN a ELSE b

\* s[i] for a 0-based i; callers test InRange first (s[i] is undefined outside)
At(s, i) == s[i + 1]
InRange(s, i) == i >= 0 /\ i < Len(s)

\* Array.prototype.slice(start, end): negative arguments count from the end,
\* both are clamped to [0, length]
SliceIdx(len, k) == IF k < 0 THEN Max2(len + k, 0) ELSE IF k < len THEN k ELSE len
Slice(s, start, end) ==
  LET from == SliceIdx(Len(s), start)
      to   == SliceIdx(Len(s), end)
  IN  IF to <= from THEN <<>> ELSE SubSeq(s, from + 1, to)
\* slice(start) with the end omitted.  slice(-0) is slice(0): the whole array.
SliceFrom(s, start) == Slice(s, start, Len(s))

\* the arrays of at most n elements of kinds (the arrays a call is tried on)
RECURSIVE ListsOf(_, _)
ListsOf(kinds, n) ==
  IF n = 0 THEN {<<>>}
  ELSE ListsOf(kinds, n - 1) \cup {Append(l, c) : l \in ListsOf(kinds, n - 1), c \in kinds}

\* Math.floor(n * 0.1), Math.floor(n * 0.2), ... for the integers n of the
\* model.  The double product n * 0.d floors to floor(n*d/10) for every n in
\* -50..89 (the first n where they differ is 90, for 0.7).
FloorTenths(n, d) == (n * d) \div 10

(***************************************************************************)
(* Strings and regular expressions                                         *)
(*                                                                         *)
(* A string is a sequence of UTF-16 code units.  A regular expression is a *)
(* tree of records; Ends(re, s, i) is the set of offsets at which a match  *)
(* of re that starts at offset i of s can end.  RegExp.prototype.test      *)
(* succeeds exactly when some start offset has an end; the patterns used   *)
(* with String.prototype.replace below have, at every start offset, either *)
(* one possible end or a greedy quantifier last, so the match the engine   *)
(* takes is the one with the largest end.                                  *)
(***************************************************************************)
WhiteSpace ==        \* \s, and what String.prototype.trim removes
  {9, 10, 11, 12, 13, 32, 160, 5760, 8232, 8233, 8239, 8287, 12288, 65279}
    \cup (8192..8202)
LineTerminator == {10, 13, 8232, 8233}      \* what "." does not match
Digit == 48..57                             \* \d
Letter == (65..90) \cup (97..122)          \* [a-zA-Z]

\* the code units a pattern character matches under the i flag
CaseSet(c) == IF c \in 65..90 THEN {c, c + 32}
              ELSE IF c \in 97..122 THEN {c, c - 32} ELSE {c}
\* String.prototype.toLowerCase (ASCII letters; the other code units of the
\* model have no lower-case form)
ToLowerCase(s) == [k \in 1..Len(s) |-> IF s[k] \in 65..90 THEN s[k] + 32 ELSE s[k]]

Chr(set)    == [t |-> "set", s |-> set]               \* [...]
NotChr(set) == [t |-> "nset", s |-> set]              \* [^...]
Cat(rs)     == [t |-> "seq", rs |-> rs]               \* r1 r2 ...
Alt(rs)     == [t |-> "alt", rs |-> rs]               \* r1|r2|...
\* r{lo,hi}; hi = -1: no upper limit, so r? is Rep(r, 0, 1), r* is
\* Rep(r, 0, -1) and r+ is Rep(r, 1, -1)
Rep(r, lo, hi) == [t |-> "rep", r |-> r, lo |-> lo, hi |-> hi]
Bol         == [t |-> "bol"]                          \* ^
Eol         == [t |-> "eol"]                          \* $
WordB       == [t |-> "wb"]                           \* \b
Run(lo)     == [t |-> "run", lo |-> lo]               \* (.)\1{lo,}
Lit(str)    == Cat([k \in 1..Len(str) |-> Chr({str[k]})])
LitCI(str)  == Cat([k \in 1..Len(str) |-> Chr(CaseSet(str[k]))])

IsWordAt(s, i) == i >= 0 /\ i < Len(s) /\ s[i + 1] \in (Letter \cup Digit \cup {95})

\* the offsets up to which s repeats the code unit at offset i
RECURSIVE RunEnd(_, _, _)
RunEnd(s, i, j) ==
  IF j < Len(s) /\ s[j + 1] = s[i + 1] THEN RunEnd(s, i, j + 1) ELSE j

RECURSIVE Ends(_, _, _), EndsCat(_, _, _, _), EndsRep(_, _, _, _)
Ends(re, s, i) ==
  CASE re.t = "set"  -> IF i < Len(s) /\ s[i + 1] \in re.s THEN {i + 1} ELSE {}
    [] re.t = "nset" -> IF i < Len(s) /\ s[i + 1] \notin re.s THEN {i + 1} ELSE {}
    [] re.t = "seq"  -> EndsCat(re.rs, 1, s, {i})
    [] re.t = "alt"  -> UNION {Ends(re.rs[k], s, i) : k \in 1..Len(re.rs)}
    [] re.t = "rep"  -> EndsRep(re, s, {i}, 0)
    [] re.t = "bol"  -> IF i = 0 THEN {i} ELSE {}
    [] re.t = "eol"  -> IF i = Len(s) THEN {i} ELSE {}
    [] re.t = "wb"   -> IF IsWordAt(s, i - 1) # IsWordAt(s, i) THEN {i} ELSE {}
    [] re.t = "run"  ->
         IF i < Len(s) /\ s[i + 1] \notin LineTerminator
         THEN {j \in (i + 1 + re.lo)..RunEnd(s, i, i + 1) : TRUE}
         ELSE {}
EndsCat(rs, k, s, P) ==
  IF k > Len(rs) \/ P = {} THEN P
  ELSE EndsCat(rs, k + 1, s, UNION {Ends(rs[k], s, p) : p \in P})
\* P: the offsets reached after exactly n repetitions (no repeated pattern of
\* the model matches the empty string, so P moves right and empties)
EndsRep(re, s, P, n) ==
  IF P = {} THEN {}
  ELSE (IF n >= re.lo THEN P ELSE {})
         \cup (IF n = re.hi THEN {}
               ELSE EndsRep(re, s, UNION {Ends(re.r, s, p) : p \in P}, n + 1))


\* the end of the match of re at offset i, or -1
MatchEnd(re, s, i) ==
  LET e == Ends(re, s, i)
  IN  IF e = {} THEN 0 - 1 ELSE CHOOSE m \in e : \A x \in e : x <= m

\* RegExp.prototype.test with the search starting at offset from (lastIndex)
Test(re, s, from) == \E i \in from..Len(s) : Ends(re, s, i) # {}

\* the literal pat occurs in s at offset i
OccursAt(pat, s, i) ==
  i + Len(pat) <= Len(s) /\ \A k \in 1..Len(pat) : s[i + k] = pat[k]
Includes(s, pat) == \E i \in 0..(Len(s) - Len(pat)) : OccursAt(pat, s, i)   \* String.prototype.includes
StartsWith(s, pat) == OccursAt(pat, s, 0)                                   \* String.prototype.startsWith

\* parseInt(digits, radix) of a non-empty run of digits of that radix
RECURSIVE ParseInt(_, _)
ParseInt(ds, radix) ==
  IF ds = <<>> THEN 0
  ELSE LET c == ds[Len(ds)]
           digit == IF c \in Digit THEN c - 48
                    ELSE IF c \in 65..70 THEN c - 55 ELSE c - 87
       IN  ParseInt(SubSeq(ds, 1, Len(ds) - 1), radix) * radix + digit

\* The replacement of one match m: a fixed string, '$1' of /(.)\1{n,}/ (the
\* first code unit of the match), or the replacer function of the numeric
\* entities: parseInt of the digits (radix 10 after "&#", 16 after "&#x"),
\* '' for the zero-width space, non-joiner and joiner, else String.fromCharCode
Const(rep)   == [k |-> "const", v |-> rep]
Replacement(by, m) ==
  CASE by.k = "const"  -> by.v
    [] by.k = "group1" -> <<m[1]>>
    [] by.k = "entity" ->
         LET skip == IF by.radix = 16 THEN 4 ELSE 3
             code == ParseInt(SubSeq(m, skip, Len(m) - 1), by.radix)
         IN  IF code = 8203 \/ code = 8204 \/ code = 8205 THEN <<>>
             ELSE <<code % 65536>>       \* String.fromCharCode: 16 bits are kept

\* String.prototype.replace with a g-flag pattern: every match, scanning from
\* the left and resuming after each match, is replaced.  No pattern of the
\* model matches the empty string.
RECURSIVE ReplaceFrom(_, _, _, _)
ReplaceFrom(re, by, s, i) ==
  IF i >= Len(s) THEN <<>>
  ELSE LET e == MatchEnd(re, s, i)
       IN  IF e > i
           THEN Replacement(by, SubSeq(s, i + 1, e)) \o ReplaceFrom(re, by, s, e)
           ELSE <<s[i + 1]>> \o ReplaceFrom(re, by, s, i + 1)
ReplaceAll(s, re, by) == ReplaceFrom(re, by, s, 0)

\* String.prototype.trim
RECURSIVE TrimStart(_), TrimEnd(_)
TrimStart(s) == IF s # <<>> /\ Head(s) \in WhiteSpace THEN TrimStart(Tail(s)) ELSE s
TrimEnd(s) ==
  IF s # <<>> /\ s[Len(s)] \in WhiteSpace THEN TrimEnd(SubSeq(s, 1, Len(s) - 1)) ELSE s
Trim(s) == TrimEnd(TrimStart(s))

(***************************************************************************)
(* SubtitleHandler.cleanSubtitleText                                       *)
(*                                                                         *)
(* The function is a chain of assignments cleaned = cleaned.replace(...);  *)
(* CleanSteps lists them in the code's order and RunSteps applies them.    *)
(***************************************************************************)
\* convertHalfWidthToFullWidth: /[ｱ-ﾝﾞﾟ]/g is U+FF71..U+FF9D, U+FF9E, U+FF9F;
\* every code unit of that class is a key of halfToFull
halfToFull ==
  [c \in 65393..65439 |->
     CASE c \in 65393..65397 -> 12450 + 2 * (c - 65393)       \* ｱｲｳｴｵ
       [] c = 65398 -> 12459 [] c = 65399 -> 12461 [] c = 65400 -> 12463
       [] c = 65401 -> 12465 [] c = 65402 -> 12467             \* ｶｷｸｹｺ
       [] c = 65403 -> 12469 [] c = 65404 -> 12471 [] c = 65405 -> 12473
       [] c = 65406 -> 12475 [] c = 65407 -> 12477             \* ｻｼｽｾｿ
       [] c = 65408 -> 12479 [] c = 65409 -> 12481 [] c = 65410 -> 12484
       [] c = 65411 -> 12486 [] c = 65412 -> 12488             \* ﾀﾁﾂﾃﾄ
       [] c \in 65413..65417 -> 12490 + (c - 65413)            \* ﾅﾆﾇﾈﾉ
       [] c \in 65418..65422 -> 12495 + 3 * (c - 65418)        \* ﾊﾋﾌﾍﾎ
       [] c \in 65423..65427 -> 12510 + (c - 65423)            \* ﾏﾐﾑﾒﾓ
       [] c \in 65428..65430 -> 12516 + 2 * (c - 65428)        \* ﾔﾕﾖ
       [] c \in 65431..65435 -> 12521 + (c - 65431)            \* ﾗﾘﾙﾚﾛ
       [] c = 65436 -> 12527 [] c = 65437 -> 12531             \* ﾜﾝ
       [] c = 65438 -> 12443 [] c = 65439 -> 12444]            \* ﾞﾟ
convertHalfWidthToFullWidth(s) ==
  [k \in 1..Len(s) |-> IF s[k] \in 65393..65439 THEN halfToFull[s[k]] ELSE s[k]]

ReplaceStep(re, by) == [op |-> "replace", re |-> re, by |-> by]

CleanSteps ==
  << [op |-> "trim"],                                                              \* text.trim()
     ReplaceStep(Lit(<<38, 97, 109, 112, 59>>), Const(<<38>>)),                \* &amp;  -> &
     ReplaceStep(Lit(<<38, 108, 116, 59>>), Const(<<60>>)),                    \* &lt;   -> <
     ReplaceStep(Lit(<<38, 103, 116, 59>>), Const(<<62>>)),                    \* &gt;   -> >
     ReplaceStep(Lit(<<38, 113, 117, 111, 116, 59>>), Const(<<34>>)),          \* &quot; -> "
     ReplaceStep(Lit(<<38, 97, 112, 111, 115, 59>>), Const(<<39>>)),           \* &apos; -> '
     ReplaceStep(Lit(<<38, 110, 98, 115, 112, 59>>), Const(<<32>>)),           \* &nbsp; -> space
     \* /&#(\d+);/g -> String.fromCharCode(parseInt(num, 10))
     ReplaceStep(Cat(<<Chr({38}), Chr({35}), Rep(Chr(Digit), 1, 0 - 1), Chr({59})>>), [k |-> "entity", radix |-> 10]),
     \* /&#x([0-9a-fA-F]+);/g -> String.fromCharCode(parseInt(hex, 16))
     ReplaceStep(Cat(<<Chr({38}), Chr({35}), Chr({120}), Rep(Chr(Digit \cup (65..70) \cup (97..102)), 1, 0 - 1), Chr({59})>>),
                 [k |-> "entity", radix |-> 16]),
     \* /<\d{2}:\d{2}:\d{2}\.\d{3}>/g
     ReplaceStep(Cat(<<Chr({60}), Rep(Chr(Digit), 2, 2), Chr({58}), Rep(Chr(Digit), 2, 2),
                       Chr({58}), Rep(Chr(Digit), 2, 2), Chr({46}), Rep(Chr(Digit), 3, 3),
                       Chr({62})>>), Const(<<>>)),
     \* /<\/?[a-zA-Z][^>]*>/g
     ReplaceStep(Cat(<<Chr({60}), Rep(Chr({47}), 0, 1), Chr(Letter), Rep(NotChr({62}), 0, 0 - 1), Chr({62})>>),
                 Const(<<>>)),
     ReplaceStep(Rep(Chr({9834}), 1, 0 - 1), Const(<<>>)),                              \* /♪+/g
     ReplaceStep(LitCI(<<91, 38899, 27005, 93>>), Const(<<>>)),                \* [音楽]
     ReplaceStep(LitCI(<<91, 25293, 25163, 93>>), Const(<<>>)),                \* [拍手]
     ReplaceStep(LitCI(<<91, 31505, 12356, 93>>), Const(<<>>)),                \* [笑い]
     ReplaceStep(LitCI(<<91, 77, 117, 115, 105, 99, 93>>), Const(<<>>)),       \* [Music]
     ReplaceStep(LitCI(<<91, 65, 112, 112, 108, 97, 117, 115, 101, 93>>), Const(<<>>)),  \* [Applause]
     ReplaceStep(LitCI(<<91, 76, 97, 117, 103, 104, 116, 101, 114, 93>>), Const(<<>>)),  \* [Laughter]
     ReplaceStep(LitCI(<<40, 38899, 27005, 41>>), Const(<<>>)),                \* (音楽)
     ReplaceStep(LitCI(<<40, 25293, 25163, 41>>), Const(<<>>)),                \* (拍手)
     ReplaceStep(LitCI(<<40, 31505, 12356, 41>>), Const(<<>>)),                \* (笑い)
     ReplaceStep(LitCI(<<40, 77, 117, 115, 105, 99, 41>>), Const(<<>>)),       \* (Music)
     ReplaceStep(LitCI(<<40, 65, 112, 112, 108, 97, 117, 115, 101, 41>>), Const(<<>>)),  \* (Applause)
     ReplaceStep(LitCI(<<40, 76, 97, 117, 103, 104, 116, 101, 114, 41>>), Const(<<>>)),  \* (Laughter)
     \* /^>>\s*/g
     ReplaceStep(Cat(<<Bol, Chr({62}), Chr({62}), Rep(Chr(WhiteSpace), 0, 0 - 1)>>), Const(<<>>)),
     ReplaceStep(Run(3), [k |-> "group1"]),                                              \* /(.)\1{3,}/g -> '$1'
     [op |-> "halfwidth"],                                                     \* convertHalfWidthToFullWidth
     \* if (/^[。、,.!?！？\d\s]+$/.test(cleaned)) return ''
     [op |-> "returnEmptyIf",
      re |-> Cat(<<Bol,
                   Rep(Chr({12290, 12289, 44, 46, 33, 63, 65281, 65311}
                              \cup Digit \cup WhiteSpace), 1, 0 - 1),
                   Eol>>)],
     ReplaceStep(Rep(Chr(WhiteSpace), 1, 0 - 1), Const(<<32>>)),                        \* /\s+/g -> ' '
     [op |-> "trim"] >>

\* the steps from the k-th on; each intermediate string is computed (the
\* comparison with s) before the next step starts
RECURSIVE RunSteps(_, _, _)
RunSteps(steps, s, k) ==
  IF k > Len(steps) THEN s
  ELSE IF steps[k].op = "returnEmptyIf" /\ Test(steps[k].re, s, 0) THEN <<>>
  ELSE LET step == steps[k]
           next == CASE step.op = "trim"      -> Trim(s)
                     [] step.op = "replace"   -> ReplaceAll(s, step.re, step.by)
                     [] step.op = "halfwidth" -> convertHalfWidthToFullWidth(s)
                     [] step.op = "returnEmptyIf" -> s
       IN  IF next = s THEN RunSteps(steps, s, k + 1)
           ELSE RunSteps(steps, next, k + 1)

cleanSubtitleText(text) == RunSteps(CleanSteps, text, 1)

\* The raw texts tried: every concatenation of at most MaxPieces of these
RECURSIVE Texts(_)
Texts(n) ==
  LET TextPieces ==
      { <<38, 97, 109, 112, 59>>,    \* &amp;
        <<97, 109, 112, 59>>,        \* amp;
        <<108, 116, 59>>,            \* lt;
        <<60>>,                      \* <
        <<98, 62>>,                  \* b>
        <<60, 98, 62>>,              \* <b>
        <<32>>,                      \* space
        <<49>>,                      \* 1
        <<9834>>,                    \* ♪
        <<65393>> }                  \* ｱ
  IN  IF n = 0 THEN {<<>>}
      ELSE Texts(n - 1) \cup {t \o p : t \in Texts(n - 1), p \in TextPieces}

\* the normalizer applied to a raw text, and again to its own output
CleanText ==
  /\ pcC = "idle"
  /\ \E x \in Texts(MaxPieces) :
       /\ rawText' = x
       /\ cleanedOnce' = cleanSubtitleText(x)
       /\ cleanedTwice' = cleanSubtitleText(cleanedOnce')
  /\ pcC' = "cleaned"
  /\ UNCHANGED <<samplerVars, parserVars, filterVars, fetcherVars, scannerVars, transcriptVars, spawnVars, tempVars, commentsVars>>

ReturnCleanText ==
  /\ pcC = "cleaned"
  /\ pcC' = "idle"
  /\ rawText' = <<>>
  /\ cleanedOnce' = <<>>
  /\ cleanedTwice' = <<>>
  /\ UNCHANGED <<samplerVars, parserVars, filterVars, fetcherVars, scannerVars, transcriptVars, spawnVars, tempVars, commentsVars>>

NextCleaner == CleanText \/ ReturnCleanText

\* C3: cleanSubtitleText is idempotent.
C3_Idempotent ==
  pcC = "cleaned" => cleanedTwice = cleanedOnce

(***************************************************************************)
(* Numbers and string helpers of the caption parsers                        *)
(*                                                                         *)
(* A number is NaN or a multiple of 0.001 (v counts thousandths); the      *)
(* timestamps of the model have at most three decimals, and for them the   *)
(* double arithmetic of the code and this exact arithmetic give the same   *)
(* sums, differences and comparisons with 0.1.                             *)
(***************************************************************************)
Unit == 1000
NaN == [nan |-> TRUE, v |-> 0]
Num(v) == [nan |-> FALSE, v |-> v]
\* a + b, a - b, a * k and a / k (k an integer; exact in the model),
\* Math.max(a, b) and Math.floor(a): NaN when an operand is NaN
NumOp(op, a, b) ==
  IF a.nan \/ b.nan THEN NaN
  ELSE CASE op = "+" -> Num(a.v + b.v)
         [] op = "-" -> Num(a.v - b.v)
         [] op = "*" -> Num(a.v * (b.v \div Unit))
         [] op = "/" -> Num(a.v \div (b.v \div Unit))
         [] op = "max" -> Num(Max2(a.v, b.v))
         [] op = "floor" -> Num((a.v \div Unit) * Unit)
\* a > b, false on NaN
NumGreater(a, b) == ~a.nan /\ ~b.nan /\ a.v > b.v
\* the offset after the digits that start at offset i
RECURSIVE DigitsEnd(_, _)
DigitsEnd(s, i) == IF i < Len(s) /\ s[i + 1] \in Digit THEN DigitsEnd(s, i + 1) ELSE i

\* parseFloat(s): leading whitespace, an optional sign, digits, an optional
\* fraction; NaN when no digit is found; what follows the number is ignored.
\* (No string of the model has an exponent or spells Infinity.)
ParseFloat(str) ==
  LET s == TrimStart(str)
      neg == s # <<>> /\ s[1] = 45
      from == IF s # <<>> /\ s[1] \in {43, 45} THEN 1 ELSE 0
      intEnd == DigitsEnd(s, from)
      hasDot == intEnd < Len(s) /\ s[intEnd + 1] = 46
      fracEnd == IF hasDot THEN DigitsEnd(s, intEnd + 1) ELSE intEnd
      intPart == ParseInt(SubSeq(s, from + 1, intEnd), 10)
      fracDigits == IF hasDot THEN SubSeq(s, intEnd + 2, fracEnd) ELSE <<>>
      frac3 == [k \in 1..3 |-> IF k <= Len(fracDigits) THEN fracDigits[k] ELSE 48]
      magnitude == intPart * Unit + ParseInt(frac3, 10)
  IN  IF intEnd = from /\ fracDigits = <<>> THEN NaN
      ELSE Num(IF neg THEN 0 - magnitude ELSE magnitude)

\* String.prototype.split(sep) with a non-empty string separator: the parts
\* between the occurrences of sep, found from the left; Split(s, sep, start)
\* is the parts from offset start on
SetMin(S) == CHOOSE m \in S : \A x \in S : m <= x
RECURSIVE Split(_, _, _)
Split(s, sep, start) ==
  LET occ == {i \in start..(Len(s) - Len(sep)) : OccursAt(sep, s, i)}
  IN  IF occ = {} THEN <<SubSeq(s, start + 1, Len(s))>>
      ELSE <<SubSeq(s, start + 1, SetMin(occ))>>
             \o Split(s, sep, SetMin(occ) + Len(sep))

\* Array.prototype.join(sep)
RECURSIVE Join(_, _)
Join(parts, sep) ==
  IF parts = <<>> THEN <<>>
  ELSE IF Len(parts) = 1 THEN parts[1]
  ELSE parts[1] \o sep \o Join(Tail(parts), sep)

\* Number.prototype.toString of a non-negative integer, and padStart(2, '0')
RECURSIVE NumberToString(_)
NumberToString(n) ==
  IF n < 10 THEN <<48 + n>> ELSE NumberToString(n \div 10) \o <<48 + (n % 10)>>

\* formatDuration(seconds) of a whole number of seconds
formatDuration(seconds) ==
  LET PadStart2(s) == IF Len(s) < 2 THEN <<48>> \o s ELSE s      \* padStart(2, '0')
      hours == seconds \div 3600
      minutes == (seconds % 3600) \div 60
      secs == seconds % 60
  IN  IF hours > 0
      THEN NumberToString(hours) \o <<58>> \o PadStart2(NumberToString(minutes))
             \o <<58>> \o PadStart2(NumberToString(secs))
      ELSE NumberToString(minutes) \o <<58>> \o PadStart2(NumberToString(secs))

(***************************************************************************)
(* SubtitleHandler.parseSrtToSegments / parseVttToSegments                 *)
(***************************************************************************)
Arrow == <<45, 45, 62>>      \* '-->'
Space == <<32>>              \* ' '
Newline == <<10>>            \* '\n'

\* parseSrtTime(timeStr): "00:00:00,000"
parseSrtTime(timeStr) ==
  LET halves == Split(timeStr, <<44>>, 0)
      time == halves[1]
      hasMs == Len(halves) >= 2 /\ halves[2] # <<>>       \* ms ? ... : 0
      parts == Split(time, <<58>>, 0)
  IN  IF Len(parts) = 3
      THEN NumOp("+", NumOp("+", NumOp("+", NumOp("*", ParseFloat(parts[1]), Num(3600 * Unit)),
                                           NumOp("*", ParseFloat(parts[2]), Num(60 * Unit))),
                              ParseFloat(parts[3])),
                 IF hasMs THEN NumOp("/", ParseFloat(halves[2]), Num(1000 * Unit))
                 ELSE Num(0))
      ELSE Num(0)

\* parseVttTime(timeStr): "00:00:00.000" or "00:00.000"
parseVttTime(timeStr) ==
  LET parts == Split(timeStr, <<58>>, 0)
  IN  IF Len(parts) = 3
      THEN NumOp("+", NumOp("+", NumOp("*", ParseFloat(parts[1]), Num(3600 * Unit)),
                              NumOp("*", ParseFloat(parts[2]), Num(60 * Unit))),
                 ParseFloat(parts[3]))
      ELSE IF Len(parts) = 2
      THEN NumOp("+", NumOp("*", ParseFloat(parts[1]), Num(60 * Unit)),
                 ParseFloat(parts[2]))
      ELSE Num(0)

\* isValidSegmentText(text): text.length > 2 (text is never null or undefined here)
isValidSegmentText(text) == Len(text) > 2

NoSegment == [none |-> TRUE]

\* a slip in the duplicate test: the comparison with lastText is left out
createSegmentIfValidNoDedupe(text, startTime, endTime, lastTxt) ==
  LET duration == NumOp("max", Num(0), NumOp("-", endTime, startTime))
  IN  IF NumGreater(duration, Num(100))
      THEN [none |-> FALSE, text |-> text, start |-> startTime.v,
            duration |-> duration.v,
            timestamp |-> formatDuration(NumOp("floor", startTime, startTime).v \div Unit)]
      ELSE NoSegment

\* createSegmentIfValid(text, startTime, endTime, lastText); 100 is 0.1
createSegmentIfValid(text, startTime, endTime, lastTxt) ==
  LET duration == NumOp("max", Num(0), NumOp("-", endTime, startTime))
  IN  IF text # lastTxt /\ ~StartsWith(text, lastTxt \o Space)
         /\ NumGreater(duration, Num(100))
      THEN [none |-> FALSE, text |-> text, start |-> startTime.v,
            duration |-> duration.v,
            timestamp |-> formatDuration(NumOp("floor", startTime, startTime).v \div Unit)]
      ELSE NoSegment

\* /^\d+$/.test(line.trim())
IsSequenceNumber(line) == Test(Cat(<<Bol, Rep(Chr(Digit), 1, 0 - 1), Eol>>), Trim(line), 0)

\* the inner while loop of parseSrtToSegments: the text lines from offset j on
\* up to a blank line or a sequence number; returns the new i and textLines
RECURSIVE SrtTextLines(_, _, _)
SrtTextLines(ls, j, textLines) ==
  IF j < Len(ls) /\ Trim(At(ls, j)) # <<>> /\ ~IsSequenceNumber(At(ls, j))
  THEN LET cleanedLine == cleanSubtitleText(At(ls, j))
       IN  SrtTextLines(ls, j + 1,
             IF isValidSegmentText(cleanedLine) THEN Append(textLines, cleanedLine)
             ELSE textLines)
  ELSE [i |-> j, textLines |-> textLines]

\* the inner while loop of parseVttToSegments: up to a '-->' line or a blank line
RECURSIVE VttTextLines(_, _, _)
VttTextLines(ls, j, textLines) ==
  IF j < Len(ls) /\ ~Includes(At(ls, j), Arrow) /\ Trim(At(ls, j)) # <<>>
  THEN LET cleanedLine == cleanSubtitleText(At(ls, j))
       IN  VttTextLines(ls, j + 1,
             IF isValidSegmentText(cleanedLine) THEN Append(textLines, cleanedLine)
             ELSE textLines)
  ELSE [i |-> j, textLines |-> textLines]

\* a slip in the collapser's state: lastText moves to every candidate, the
\* rejected ones included
EmitCueRemembersRejected(st, i, textLines, startTime, endTime) ==
  LET segment == IF textLines = <<>> THEN NoSegment
                 ELSE createSegmentIfValid(Join(textLines, Space), startTime, endTime,
                                           st.lastText)
  IN  IF segment.none
      THEN [i |-> i, segments |-> st.segments,
            lastText |-> IF textLines = <<>> THEN st.lastText ELSE Join(textLines, Space)]
      ELSE [i |-> i, segments |-> Append(st.segments, segment), lastText |-> segment.text]
\* what one cue contributes: the segment of createSegmentIfValid appended, and
\* lastText moved to its text, when there are text lines and it is accepted
EmitCue(st, i, textLines, startTime, endTime) ==
  LET segment == IF textLines = <<>> THEN NoSegment
                 ELSE createSegmentIfValid(Join(textLines, Space), startTime, endTime,
                                           st.lastText)
  IN  IF segment.none
      THEN [i |-> i, segments |-> st.segments, lastText |-> st.lastText]
      ELSE [i |-> i, segments |-> Append(st.segments, segment), lastText |-> segment.text]

\* one pass through the body of "while (i < lines.length)" of parseSrtToSegments
\* from the state st = [i, segments, lastText]
SrtIteration(ls, st) ==
  LET i == st.i
      skip(n) == [i |-> n, segments |-> st.segments, lastText |-> st.lastText]
  IN  IF Trim(At(ls, i)) = <<>> THEN skip(i + 1)
      ELSE IF IsSequenceNumber(At(ls, i))
      THEN IF i + 1 < Len(ls) /\ Includes(At(ls, i + 1), Arrow)
           THEN LET timestamps == Split(At(ls, i + 1), Arrow, 0)
                IN  IF Len(timestamps) = 2
                    THEN LET startTime == parseSrtTime(Trim(timestamps[1]))
                             endTime == parseSrtTime(Trim(timestamps[2]))
                             body == SrtTextLines(ls, i + 2, <<>>)
                         IN  EmitCue(st, body.i, body.textLines, startTime, endTime)
                    ELSE skip(i + 1)
           ELSE skip(i + 1)
      ELSE skip(i + 1)

\* shouldSkipVttLine(line)
shouldSkipVttLine(line) ==
  \/ StartsWith(line, <<87, 69, 66, 86, 84, 84>>)     \* 'WEBVTT'
  \/ StartsWith(line, <<78, 79, 84, 69>>)             \* 'NOTE'
  \/ StartsWith(line, <<83, 84, 89, 76, 69>>)         \* 'STYLE'
  \/ StartsWith(line, <<82, 69, 71, 73, 79, 78>>)     \* 'REGION'
  \/ Trim(line) = <<>>

\* skipVttNoteBlock(lines, currentIndex)
RECURSIVE SkipNoteFrom(_, _)
SkipNoteFrom(ls, i) ==
  IF i < Len(ls) /\ Trim(At(ls, i)) # <<>> /\ ~Includes(At(ls, i), Arrow)
  THEN SkipNoteFrom(ls, i + 1) ELSE i
\* a slip in the helper: the index of the NOTE line itself is handed back
skipVttNoteBlockStays(ls, currentIndex) == currentIndex
skipVttNoteBlock(ls, currentIndex) == SkipNoteFrom(ls, currentIndex + 1)

\* line.split(/\s+(position|align|size|line|vertical):/)[0]: the line up to
\* the first match
BeforeCueSettings(line) ==
  LET CueSettings ==
        Cat(<<Rep(Chr(WhiteSpace), 1, 0 - 1),
              Alt(<<Lit(<<112, 111, 115, 105, 116, 105, 111, 110>>),   \* position
                    Lit(<<97, 108, 105, 103, 110>>),                    \* align
                    Lit(<<115, 105, 122, 101>>),                        \* size
                    Lit(<<108, 105, 110, 101>>),                        \* line
                    Lit(<<118, 101, 114, 116, 105, 99, 97, 108>>)>>),   \* vertical
              Chr({58})>>)
      starts == {i \in 0..Len(line) : Ends(CueSettings, line, i) # {}}
  IN  IF starts = {} THEN line ELSE SubSeq(line, 1, SetMin(starts))

\* one pass through the body of "while (i < lines.length)" of parseVttToSegments
VttIteration(ls, st) ==
  LET i == st.i
      skip(n) == [i |-> n, segments |-> st.segments, lastText |-> st.lastText]
  IN  IF shouldSkipVttLine(At(ls, i)) THEN skip(i + 1)
      ELSE IF Trim(At(ls, i)) = <<78, 79, 84, 69>> THEN skip(skipVttNoteBlock(ls, i))
      ELSE IF Includes(At(ls, i), Arrow)
      THEN LET timestamps == Split(BeforeCueSettings(At(ls, i)), Arrow, 0)
           IN  IF Len(timestamps) = 2
               THEN LET startTime == parseVttTime(Trim(timestamps[1]))
                        endTime == parseVttTime(Trim(timestamps[2]))
                        body == VttTextLines(ls, i + 1, <<>>)
                    IN  EmitCue(st, body.i, body.textLines, startTime, endTime)
               ELSE skip(i + 1)
      ELSE skip(i + 1)

(***************************************************************************)
(* The caption files tried: a file is written from at most MaxCues cues,   *)
(* each a timestamp line and text lines, in the SRT layout (sequence       *)
(* number, "," decimals) or the WebVTT layout (header, "." decimals).      *)
(***************************************************************************)
Timestamps ==
  << \* 00:00:01,000 --> 00:00:03,000
     <<48, 48, 58, 48, 48, 58, 48, 49, 44, 48, 48, 48, 32, 45, 45, 62, 32,
       48, 48, 58, 48, 48, 58, 48, 51, 44, 48, 48, 48>>,
     \* 00:00:03,500 --> 00:00:06,000
     <<48, 48, 58, 48, 48, 58, 48, 51, 44, 53, 48, 48, 32, 45, 45, 62, 32,
       48, 48, 58, 48, 48, 58, 48, 54, 44, 48, 48, 48>>,
     \* 00:00:06,000 --> 00:00:08,000
     <<48, 48, 58, 48, 48, 58, 48, 54, 44, 48, 48, 48, 32, 45, 45, 62, 32,
       48, 48, 58, 48, 48, 58, 48, 56, 44, 48, 48, 48>>,
     \* xx --> 00:00:03,000   (a start that is no timestamp)
     <<120, 120, 32, 45, 45, 62, 32,
       48, 48, 58, 48, 48, 58, 48, 51, 44, 48, 48, 48>>,
     \* 00:00:08,000 --> 00:00:08,050   (0.05 s long)
     <<48, 48, 58, 48, 48, 58, 48, 56, 44, 48, 48, 48, 32, 45, 45, 62, 32,
       48, 48, 58, 48, 48, 58, 48, 56, 44, 48, 53, 48>>,
     \* xx:00:01,000 --> 00:00:03,000   (unparsable start)
     <<120, 120, 58, 48, 48, 58, 48, 49, 44, 48, 48, 48, 32, 45, 45, 62, 32,
       48, 48, 58, 48, 48, 58, 48, 51, 44, 48, 48, 48>> >>
TsShapeless == Len(Timestamps) - 2 \* the cue whose start has no h:m:s shape
TsShort == Len(Timestamps) - 1     \* the cue too short to keep
TsBad == Len(Timestamps)           \* the cue whose start does not parse

\* each cue: the timestamp line it is written with and its text lines
CueKinds ==
  LET Hello           == <<104, 101, 108, 108, 111>>
      World           == <<119, 111, 114, 108, 100>>
      HelloWorld      == Hello \o Space \o World                             \* hello world
      HelloWorldToday == HelloWorld \o <<32, 116, 111, 100, 97, 121>>        \* hello world today
      Konnichiwa      == <<12371, 12435, 12395, 12385, 12399>>               \* こんにちは
      KonnichiwaSekai == Konnichiwa \o <<19990, 30028>>                      \* こんにちは世界
      Hai             == <<12399, 12356>>                                    \* はい
  IN  { [ts |-> 1, text |-> <<Hello>>],
        [ts |-> 2, text |-> <<HelloWorld>>],
        [ts |-> 3, text |-> <<HelloWorldToday>>],
        [ts |-> 1, text |-> <<Konnichiwa>>],
        [ts |-> 2, text |-> <<KonnichiwaSekai>>],
        [ts |-> TsShort, text |-> <<HelloWorld>>],
        [ts |-> TsBad, text |-> <<Hello>>],
        [ts |-> TsShapeless, text |-> <<Hello>>],
        [ts |-> 1, text |-> <<Hai>>],
        [ts |-> 1, text |-> <<Hello, World>>] }
RECURSIVE SrtLines(_, _)
SrtLines(cs, n) ==
  IF n > Len(cs) THEN <<>>
  ELSE <<NumberToString(n), Timestamps[cs[n].ts]>> \o cs[n].text \o <<<<>>>>
         \o SrtLines(cs, n + 1)
RECURSIVE VttCueLines(_, _)
VttCueLines(cs, n) ==
  IF n > Len(cs) THEN <<>>
  ELSE LET line == Timestamps[cs[n].ts]
           \* the timestamp line with "." decimals
           dotted == [k \in 1..Len(line) |-> IF line[k] = 44 THEN 46 ELSE line[k]]
       IN  <<dotted>> \o cs[n].text \o <<<<>>>> \o VttCueLines(cs, n + 1)

\* the lines of the caption file written from the cues cs: the SRT file, or
\* the WebVTT file, which starts with the line WEBVTT and an empty line
FileLines(cs, vtt) ==
  Split(Join(IF vtt THEN <<<<87, 69, 66, 86, 84, 84>>, <<>>>> \o VttCueLines(cs, 1)
             ELSE SrtLines(cs, 1), Newline), Newline, 0)

\* parseSrtToSegments(srtContent) up to the loop
StartParseSrt ==
  /\ pcP = "idle"
  /\ \E cs \in ListsOf(CueKinds, MaxCues) :
       /\ cues' = cs
       /\ lines' = FileLines(cs, FALSE)
  /\ lineIdx' = 0
  /\ parsed' = <<>>
  /\ lastText' = <<>>
  /\ pcP' = "srt"
  /\ UNCHANGED <<samplerVars, cleanerVars, filterVars, fetcherVars, scannerVars, transcriptVars, spawnVars, tempVars, commentsVars>>

\* parseVttToSegments(vttContent) up to the loop; the file starts with the
\* line WEBVTT and an empty line
StartParseVtt ==
  /\ pcP = "idle"
  /\ \E cs \in ListsOf(CueKinds, MaxCues) :
       /\ cues' = cs
       /\ lines' = FileLines(cs, TRUE)
  /\ lineIdx' = 0
  /\ parsed' = <<>>
  /\ lastText' = <<>>
  /\ pcP' = "vtt"
  /\ UNCHANGED <<samplerVars, cleanerVars, filterVars, fetcherVars, scannerVars, transcriptVars, spawnVars, tempVars, commentsVars>>

\* parseSrtToSegments / parseVttToSegments up to the loop, on a file that is
\* not written from cues: any mix of at most MaxLines lines, each blank, a
\* sequence number, a header or block line, a line with '-->' or a text line
StartParseLines ==
  LET LineKinds ==
        { <<>>,                                                  \* blank
          <<55>>,                                                \* 7
          <<87, 69, 66, 86, 84, 84>>,                            \* WEBVTT
          <<78, 79, 84, 69>>,                                    \* NOTE
          <<32, 78, 79, 84, 69>>,                                \* " NOTE"
          <<83, 84, 89, 76, 69>>,                                \* STYLE
          <<82, 69, 71, 73, 79, 78>>,                            \* REGION
          Timestamps[1],                                         \* two parts
          <<97, 32>> \o Arrow \o <<32, 98, 32>> \o Arrow \o <<32, 99>>,   \* a --> b --> c
          \* a align:b --> c (one part once the cue settings are cut off)
          <<97, 32, 97, 108, 105, 103, 110, 58, 98, 32>> \o Arrow \o <<32, 99>>,
          <<104, 101, 108, 108, 111>> }                          \* hello
  IN  /\ pcP = "idle"
      /\ lines' \in ListsOf(LineKinds, MaxLines) \ {<<>>}
      /\ pcP' \in {"srt", "vtt"}
      /\ cues' = <<>>
      /\ lineIdx' = 0
      /\ parsed' = <<>>
      /\ lastText' = <<>>
      /\ UNCHANGED <<samplerVars, cleanerVars, filterVars, fetcherVars, scannerVars, transcriptVars, spawnVars, tempVars, commentsVars>>

\* one iteration of the while loop of parseSrtToSegments
SrtStep ==
  /\ pcP = "srt"
  /\ lineIdx < Len(lines)
  /\ LET st == SrtIteration(lines, [i |-> lineIdx, segments |-> parsed,
                                        lastText |-> lastText])
     IN  /\ lineIdx' = st.i
         /\ parsed' = st.segments
         /\ lastText' = st.lastText
  /\ UNCHANGED <<pcP, cues, lines, samplerVars, cleanerVars, filterVars, fetcherVars, scannerVars, transcriptVars, spawnVars, tempVars, commentsVars>>

\* one iteration of the while loop of parseVttToSegments
VttStep ==
  /\ pcP = "vtt"
  /\ lineIdx < Len(lines)
  /\ LET st == VttIteration(lines, [i |-> lineIdx, segments |-> parsed,
                                        lastText |-> lastText])
     IN  /\ lineIdx' = st.i
         /\ parsed' = st.segments
         /\ lastText' = st.lastText
  /\ UNCHANGED <<pcP, cues, lines, samplerVars, cleanerVars, filterVars, fetcherVars, scannerVars, transcriptVars, spawnVars, tempVars, commentsVars>>

\* the loop ends: return segments
ParseReturn ==
  /\ pcP \in {"srt", "vtt"}
  /\ lineIdx >= Len(lines)
  /\ pcP' = "done"
  /\ UNCHANGED <<cues, lines, lineIdx, parsed, lastText, samplerVars, cleanerVars, filterVars, fetcherVars, scannerVars, transcriptVars, spawnVars, tempVars, commentsVars>>

\* the caller has taken the segments
ParseReset ==
  /\ pcP = "done"
  /\ pcP' = "idle"
  /\ cues' = <<>>
  /\ lines' = <<>>
  /\ lineIdx' = 0
  /\ parsed' = <<>>
  /\ lastText' = <<>>
  /\ UNCHANGED <<samplerVars, cleanerVars, filterVars, fetcherVars, scannerVars, transcriptVars, spawnVars, tempVars, commentsVars>>

NextParser ==
  StartParseSrt \/ StartParseVtt \/ StartParseLines \/ SrtStep \/ VttStep \/ ParseReturn \/ ParseReset

\* the text of a cue as written in the file, its lines joined by a space
CueText(c) == Join(c.text, Space)
ValidDuration(c) == c.ts \notin {TsShapeless, TsShort, TsBad}
C8_PrefixWithoutSpace ==
  ( /\ pcP = "done"
    /\ Len(cues) = 2
    /\ ValidDuration(cues[1]) /\ ValidDuration(cues[2])
    /\ CueText(cues[1]) # CueText(cues[2])
    /\ StartsWith(CueText(cues[2]), CueText(cues[1]))
    /\ ~StartsWith(CueText(cues[2]), CueText(cues[1]) \o Space) )
     => (Len(parsed) = 1 /\ parsed[1].text = CueText(cues[2]))

\* C10: every emitted segment has non-empty text and duration > 0.1, and its
\* text is neither the text of the segment emitted just before it nor that
\* text followed by a space and more characters.
C10_EmittedSegments ==
  \A k \in 1..Len(parsed) :
     /\ parsed[k].text # <<>>
     /\ parsed[k].duration > 100
     /\ k > 1 =>
          /\ parsed[k].text # parsed[k - 1].text
          /\ ~( /\ StartsWith(parsed[k].text, parsed[k - 1].text \o Space)
                /\ Len(parsed[k].text) > Len(parsed[k - 1].text) + 1 )

\* a parse that emitted two segments and dropped a cue
C10_Witness ==
  pcP = "done" /\ Len(parsed) = 2 /\ Len(cues) = 3 /\ parsed[1].text # parsed[2].text

\* the segments parseSrtToSegments (parseVttToSegments when vtt) returns on
\* the lines ls, from the loop state st on
RECURSIVE ParseFrom(_, _, _)
ParseFrom(ls, vtt, st) ==
  IF st.i >= Len(ls) THEN st.segments
  ELSE ParseFrom(ls, vtt, IF vtt THEN VttIteration(ls, st) ELSE SrtIteration(ls, st))
\* C15: a cue whose timestamp line has an unparsable start or end produces no
\* segment, and the cues after it are parsed as if it were absent: the
\* segments returned are those of the file without the cues whose start is
\* unparsable.
C15_BadCueSkipped ==
  (pcP = "done" /\ cues # <<>>)
     => LET vtt == At(lines, 0) = <<87, 69, 66, 86, 84, 84>>      \* the file is the WebVTT one
            cs == SelectSeq(cues, LAMBDA c : c.ts \notin {TsShapeless, TsBad})
        IN  parsed = ParseFrom(FileLines(cs, vtt), vtt,
                               [i |-> 0, segments |-> <<>>, lastText |-> <<>>])

\* C16: a well-formed cue whose joined, normalized text is non-empty and whose
\* duration exceeds 0.1 becomes a segment when the duplicate collapser accepts
\* it, whatever the length of its text; the first cue of a file, which the
\* collapser always accepts, becomes the first segment.
C16_ShortTextKept ==
  LET normalized ==
        Join([k \in 1..Len(cues[1].text) |-> cleanSubtitleText(cues[1].text[k])], Space)
  IN  (pcP = "done" /\ Len(cues) >= 1 /\ ValidDuration(cues[1]) /\ normalized # <<>>)
         => (Len(parsed) >= 1 /\ parsed[1].text = normalized)

\* C17: the duplicate collapser carries the text of the most recently accepted
\* segment and nothing else: lastText is that text at every point of the loop
\* (a rejected candidate does not change it), and three candidates A, B, A,
\* none extending the one before it, yield the three segments A, B, A.
C17_LastAcceptedOnly ==
  /\ pcP \in {"srt", "vtt", "done"}
       => lastText = (IF parsed = <<>> THEN <<>> ELSE parsed[Len(parsed)].text)
  /\ ( /\ pcP = "done"
       /\ Len(cues) = 3
       /\ \A k \in 1..3 :
            /\ ValidDuration(cues[k])
            /\ \A j \in 1..Len(cues[k].text) : isValidSegmentText(cues[k].text[j])
       /\ CueText(cues[1]) = CueText(cues[3])
       /\ CueText(cues[1]) # CueText(cues[2])
       /\ ~StartsWith(CueText(cues[2]), CueText(cues[1]) \o Space)
       /\ ~StartsWith(CueText(cues[1]), CueText(cues[2]) \o Space) )
       => /\ Len(parsed) = 3
          /\ \A k \in 1..3 : parsed[k].text = CueText(cues[k])

\* A, B, A was parsed into three segments, the first and the third alike
C17_Witness ==
  /\ pcP = "done"
  /\ Len(cues) = 3
  /\ CueText(cues[1]) = CueText(cues[3])
  /\ Len(parsed) = 3
  /\ parsed[1].text = parsed[3].text
  /\ parsed[1].text # parsed[2].text

\* C30: parseSrtToSegments and parseVttToSegments terminate on every input:
\* from every state the outer loop can be in, one more iteration moves the
\* line index strictly forward and never past the end, for every mix of blank
\* lines, sequence numbers, header / NOTE / STYLE / REGION lines, '-->' lines
\* with fewer or more than two parts and text lines, so there are at most
\* lines.length iterations; an iteration only appends to the segments, one at
\* most, and the segments returned are in the order of their cues.
C30_ParsersTerminate ==
  /\ (pcP \in {"srt", "vtt"} /\ lineIdx < Len(lines))
        => LET st == [i |-> lineIdx, segments |-> parsed, lastText |-> lastText]
               nx == IF pcP = "vtt" THEN VttIteration(lines, st)
                     ELSE SrtIteration(lines, st)
           IN  /\ nx.i > lineIdx /\ nx.i <= Len(lines)
               /\ Len(nx.segments) \in {Len(parsed), Len(parsed) + 1}
               /\ SubSeq(nx.segments, 1, Len(parsed)) = parsed
  /\ pcP \in {"srt", "vtt", "done"} => (0 <= lineIdx /\ lineIdx <= Len(lines))
  /\ (pcP = "done" /\ cues # <<>>) =>
        \E f \in [1..Len(parsed) -> 1..Len(cues)] :
           \A k \in 1..Len(parsed) :
              /\ parsed[k].text = CueText(cues[f[k]])
              /\ parsed[k].start =
                   parseSrtTime(Trim(Split(Timestamps[cues[f[k]].ts], Arrow, 0)[1])).v
              /\ k > 1 => f[k - 1] < f[k]

\* a parse of the three lines " NOTE", a timestamp line and "hello" returned
\* one segment and ended at the end of the lines: as WebVTT, where the note
\* block ends at the cue
C30_Witness ==
  /\ pcP = "done"
  /\ cues = <<>>
  /\ lines = <<<<32, 78, 79, 84, 69>>, Timestamps[1], <<104, 101, 108, 108, 111>>>>
  /\ Len(parsed) = 1
  /\ lineIdx = Len(lines)

(***************************************************************************)
(* SubtitleHandler.processTranscript                                       *)
(***************************************************************************)
\* the middle samples of case 'smart': floor(middleStart + i * step) with the
\* floating-point step = middleRange / middleCount, kept when inside the range
SmartMiddle(segs, introCount, middleCount, conclusionStart) ==
  IF middleCount > 0 /\ conclusionStart > introCount
  THEN LET middleStart == introCount
           middleEnd   == conclusionStart
           middleRange == middleEnd - middleStart
           idx == [k \in 1..middleCount |->
                     middleStart + ((k - 1) * middleRange) \div middleCount]
           used == SelectSeq(idx, LAMBDA j : j < middleEnd /\ InRange(segs, j))
       IN  [k \in 1..Len(used) |-> At(segs, used[k])]
  ELSE <<>>

SmartSample(segs, maxSeg) ==
  LET introCount      == FloorTenths(maxSeg, 2)
      middleCount     == FloorTenths(maxSeg, 3)
      conclusionCount == maxSeg - introCount - middleCount
      intro           == Slice(segs, 0, introCount)
      conclusionStart == Max2(Len(segs) - conclusionCount, introCount)
      conclusion      == SliceFrom(segs, conclusionStart)
      middleSegments  == SmartMiddle(segs, introCount, middleCount, conclusionStart)
  IN  [segments    |-> intro \o middleSegments \o conclusion,
       isTruncated |-> TRUE,
       intro       |-> intro,
       middle      |-> middleSegments,
       conclusion  |-> conclusion]

\* a slip in the step: the conclusion is not taken off the range
SummaryMiddleWholeRange(segs, summaryIntro, summaryMiddle, summaryConclusion) ==
  IF summaryMiddle > 0
  THEN LET middleStep == Len(segs) \div summaryMiddle
           idx  == [k \in 1..summaryMiddle |-> summaryIntro + (k - 1) * middleStep]
           used == SelectSeq(idx, LAMBDA j :
                      j < Len(segs) - summaryConclusion /\ InRange(segs, j))
       IN  [k \in 1..Len(used) |-> At(segs, used[k])]
  ELSE <<>>
\* a slip in the guard: a sample is taken wherever the index lands
SummaryMiddleUnguarded(segs, summaryIntro, summaryMiddle, summaryConclusion) ==
  IF summaryMiddle > 0
  THEN LET middleStep == (Len(segs) - summaryConclusion) \div summaryMiddle
           idx  == [k \in 1..summaryMiddle |-> summaryIntro + (k - 1) * middleStep]
           used == SelectSeq(idx, LAMBDA j : InRange(segs, j))
       IN  [k \in 1..Len(used) |-> At(segs, used[k])]
  ELSE <<>>
\* the middle samples of case 'summary': summaryIntro + i * middleStep
SummaryMiddle(segs, summaryIntro, summaryMiddle, summaryConclusion) ==
  IF summaryMiddle > 0
  THEN LET middleStep == (Len(segs) - summaryConclusion) \div summaryMiddle
           idx  == [k \in 1..summaryMiddle |-> summaryIntro + (k - 1) * middleStep]
           used == SelectSeq(idx, LAMBDA j :
                      j < Len(segs) - summaryConclusion /\ InRange(segs, j))
       IN  [k \in 1..Len(used) |-> At(segs, used[k])]
  ELSE <<>>

SummarySample(segs, maxSeg) ==
  LET summaryIntro      == FloorTenths(maxSeg, 1)
      summaryConclusion == FloorTenths(maxSeg, 7)
      summaryMiddle     == maxSeg - summaryIntro - summaryConclusion
      intro             == Slice(segs, 0, summaryIntro)
      middleSegments    == SummaryMiddle(segs, summaryIntro, summaryMiddle,
                                         summaryConclusion)
      conclusion        == SliceFrom(segs, 0 - summaryConclusion)
  IN  [segments    |-> intro \o middleSegments \o conclusion,
       isTruncated |-> TRUE,
       intro       |-> intro,
       middle      |-> middleSegments,
       conclusion  |-> conclusion]

NoParts(segs, truncated) ==
  [segments |-> segs, isTruncated |-> truncated,
   intro |-> <<>>, middle |-> <<>>, conclusion |-> <<>>]

\* a slip in the early return: "<" where the code has "<="
processTranscriptStrictGuard(segs, md, maxSeg) ==
  IF Len(segs) < maxSeg THEN NoParts(segs, FALSE)
  ELSE CASE md = "full"    -> NoParts(Slice(segs, 0, maxSeg), TRUE)
         [] md = "summary" -> SummarySample(segs, maxSeg)
         [] OTHER          -> SmartSample(segs, maxSeg)

\* processTranscript(segments, mode, maxSegments); the default branch calls
\* processTranscript(segments, 'smart', maxSegments), whose guard is the same
\* and so reaches case 'smart'
processTranscript(segs, md, maxSeg) ==
  IF Len(segs) <= maxSeg THEN NoParts(segs, FALSE)
  ELSE CASE md = "full"    -> NoParts(Slice(segs, 0, maxSeg), TRUE)
         [] md = "smart"   -> SmartSample(segs, maxSeg)
         [] md = "summary" -> SummarySample(segs, maxSeg)
         [] OTHER          -> SmartSample(segs, maxSeg)


\* one call of processTranscript on a list of n segments
CallProcessTranscript ==
  /\ pcS = "idle"
  /\ \E n \in 0..MaxSegs, md \in {"full", "smart", "summary", "other"}, b \in (0 - NegBudgets)..MaxBudget :
       /\ segments' = [k \in 1..n |-> k - 1]
       /\ mode' = md
       /\ maxSegments' = b
       /\ result' = processTranscript([k \in 1..n |-> k - 1], md, b)
  /\ pcS' = "returned"
  /\ UNCHANGED <<cleanerVars, parserVars, filterVars, fetcherVars, scannerVars, transcriptVars, spawnVars, tempVars, commentsVars>>

\* the caller has consumed the result; the handler is ready for the next request
ReturnProcessTranscript ==
  /\ pcS = "returned"
  /\ pcS' = "idle"
  /\ segments' = <<>>
  /\ mode' = "full"
  /\ maxSegments' = 0
  /\ result' = NoParts(<<>>, FALSE)
  /\ UNCHANGED <<cleanerVars, parserVars, filterVars, fetcherVars, scannerVars, transcriptVars, spawnVars, tempVars, commentsVars>>

NextSampler == CallProcessTranscript \/ ReturnProcessTranscript

Sampled == pcS = "returned" /\ mode \in {"smart", "summary"} /\ Len(segments) > maxSegments

\* C1: whenever len(segments) > maxSegments, smart and summary return at most
\* maxSegments segments (stated for the budgets >= 0: below 0 no output, not
\* even the empty one, is within the budget).
C1_SamplingBudget ==
  (Sampled /\ maxSegments >= 0) => Len(result.segments) <= maxSegments

\* C5: in every mode, isTruncated is true exactly when the number of input
\* segments is greater than maxSegments.
C5_TruncationFlag ==
  pcS = "returned" => (result.isTruncated <=> Len(segments) > maxSegments)

C5_Witness ==
  /\ pcS = "returned" /\ mode = "other"
  /\ Len(segments) > maxSegments /\ result.isTruncated

\* C19: in summary mode with more segments than maxSegments, the middle
\* samples are the segments at the indices intro + i * floor((len -
\* conclusion) / middle), i in [0, middle), that are below len - conclusion:
\* they lie in [intro, len - conclusion), are distinct and increasing and at
\* most middle in number; 12 segments with maxSegments 10 give intro 1,
\* middle 2, conclusion 7 and 10 output segments.  (segments[k] is k here.)
C19_SummaryMiddle ==
  (pcS = "returned" /\ mode = "summary" /\ Len(segments) > maxSegments)
     => LET len == Len(segments)
            intro == FloorTenths(maxSegments, 1)
            conclusion == FloorTenths(maxSegments, 7)
            middle == maxSegments - intro - conclusion
            taken == {intro + i * ((len - conclusion) \div middle) : i \in 0..(middle - 1)}
            got == result.middle
        IN  /\ Len(got) <= Max2(middle, 0)
            /\ \A k \in 1..Len(got) :
                  /\ got[k] \in taken
                  /\ intro <= got[k] /\ got[k] < len - conclusion
                  /\ k > 1 => got[k - 1] < got[k]
            /\ middle > 0 =>
                  \A j \in taken : (0 <= j /\ j < len - conclusion)
                                      => \E k \in 1..Len(got) : got[k] = j
            /\ (len = 12 /\ maxSegments = 10)
                  => /\ intro = 1 /\ middle = 2 /\ conclusion = 7
                     /\ Len(result.intro) = 1 /\ Len(got) = 2
                     /\ Len(result.conclusion) = 7
                     /\ Len(result.segments) = 10

\* 12 segments sampled with maxSegments 10: the middle samples are segments 1
\* and 3
C19_Witness ==
  /\ pcS = "returned" /\ mode = "summary"
  /\ Len(segments) = 12 /\ maxSegments = 10
  /\ result.middle = <<1, 3>>
  /\ result.isTruncated

\* C22: in summary mode, whenever there are more segments than maxSegments
\* and maxSegments >= 2, the output has exactly maxSegments segments: every
\* computed middle index is in [intro, len - conclusion), so no middle sample
\* is skipped.
C22_SummaryFillsBudget ==
  (pcS = "returned" /\ mode = "summary"
     /\ Len(segments) > maxSegments /\ maxSegments >= 2)
     => LET intro == FloorTenths(maxSegments, 1)
            conclusion == FloorTenths(maxSegments, 7)
            middle == maxSegments - intro - conclusion
        IN  /\ Len(result.segments) = maxSegments
            /\ Len(result.middle) = middle

\* C22 (amended): in summary mode with more segments than maxSegments and
\* maxSegments >= 2, the output has at most maxSegments segments: one less for
\* every middle index intro + i * step that is not below len - conclusion,
\* which is skipped.  No index is skipped for maxSegments up to 19, so the
\* budget is then used in full; 22 segments and maxSegments 20 give 19.
C22_SummaryWithinBudget ==
  (pcS = "returned" /\ mode = "summary"
     /\ Len(segments) > maxSegments /\ maxSegments >= 2)
     => LET len == Len(segments)
            intro == FloorTenths(maxSegments, 1)
            conclusion == FloorTenths(maxSegments, 7)
            middle == maxSegments - intro - conclusion
            step == (len - conclusion) \div middle
            skipped == {i \in 0..(middle - 1) : intro + i * step >= len - conclusion}
        IN  /\ Len(result.segments) = maxSegments - Cardinality(skipped)
            /\ Len(result.middle) = middle - Cardinality(skipped)
            /\ Len(result.intro) = intro /\ Len(result.conclusion) = conclusion
            /\ maxSegments <= 19 => skipped = {}
            /\ (len = 22 /\ maxSegments = 20) => Len(result.segments) = 19

\* 22 segments sampled with maxSegments 20: the fourth middle index, 8, is
\* where the conclusion starts and is skipped; 19 segments are returned
C22_Witness ==
  /\ pcS = "returned" /\ mode = "summary"
  /\ Len(segments) = 22 /\ maxSegments = 20
  /\ result.middle = <<2, 4, 6>>
  /\ Len(result.segments) = 19

\* C6: a smart or summary sample takes input segments at strictly increasing
\* input indices, so none appears twice and none before an earlier one (stated
\* for the budgets >= 0).
C6_OrderPreserved ==
  (Sampled /\ maxSegments >= 0) => \A k \in 1..(Len(result.segments) - 1) :
                result.segments[k] < result.segments[k + 1]

\* C9: for maxSegments <= 0 and a non-empty list, smart and summary produce an
\* empty intro part and an empty conclusion part.
C9_NonPositiveBudget ==
  (Sampled /\ maxSegments <= 0 /\ Len(segments) > 0)
     => (result.intro = <<>> /\ result.conclusion = <<>>)

(***************************************************************************)
(* CommentFilter: the pattern tables                                       *)
(***************************************************************************)
Ws == Chr(WhiteSpace)                                 \* \s
SPAM_PATTERNS ==
  << \* /\b(?:bit\.ly|tinyurl\.com|goo\.gl|short\.link|cutt\.ly|ow\.ly|tiny\.cc)\b/gi
     Cat(<<WordB,
           Alt(<<
           LitCI(<<98, 105, 116, 46, 108, 121>>),   \* bit.ly
           LitCI(<<116, 105, 110, 121, 117, 114, 108, 46, 99, 111, 109>>),   \* tinyurl.com
           LitCI(<<103, 111, 111, 46, 103, 108>>),   \* goo.gl
           LitCI(<<115, 104, 111, 114, 116, 46, 108, 105, 110, 107>>),   \* short.link
           LitCI(<<99, 117, 116, 116, 46, 108, 121>>),   \* cutt.ly
           LitCI(<<111, 119, 46, 108, 121>>),   \* ow.ly
           LitCI(<<116, 105, 110, 121, 46, 99, 99>>)   \* tiny.cc
           >>),
           WordB>>),
     \* /(?:check\s*out|visit|click|watch|see)\s+(?:my|our)\s+(?:channel|profile|video|link)/gi
     Cat(<<Alt(<<
           Cat(<<LitCI(<<99, 104, 101, 99, 107>>), Rep(Ws, 0, 0 - 1), LitCI(<<111, 117, 116>>)>>),   \* check\s*out
           LitCI(<<118, 105, 115, 105, 116>>),   \* visit
           LitCI(<<99, 108, 105, 99, 107>>),   \* click
           LitCI(<<119, 97, 116, 99, 104>>),   \* watch
           LitCI(<<115, 101, 101>>)   \* see
           >>),
           Rep(Ws, 1, 0 - 1),
           Alt(<<
           LitCI(<<109, 121>>),   \* my
           LitCI(<<111, 117, 114>>)   \* our
           >>),
           Rep(Ws, 1, 0 - 1),
           Alt(<<
           LitCI(<<99, 104, 97, 110, 110, 101, 108>>),   \* channel
           LitCI(<<112, 114, 111, 102, 105, 108, 101>>),   \* profile
           LitCI(<<118, 105, 100, 101, 111>>),   \* video
           LitCI(<<108, 105, 110, 107>>)   \* link
           >>)>>),
     \* /(?:https?:\/\/[^\s]+.*){3,}/gi
     Rep(Cat(<<LitCI(<<104, 116, 116, 112>>), Rep(Chr(CaseSet(115)), 0, 1), Lit(<<58, 47, 47>>),
               Rep(NotChr(WhiteSpace), 1, 0 - 1), Rep(NotChr(LineTerminator), 0, 0 - 1)>>), 3, 0 - 1) >>

NOISE_PATTERNS ==
  << \* /<[^>]+>/g
     Cat(<<Chr({60}), Rep(NotChr({62}), 1, 0 - 1), Chr({62})>>),
     \* /&lt;|&gt;|&amp;|&quot;|&#\d+;/g
     Alt(<<
           Lit(<<38, 108, 116, 59>>),   \* &lt;
           Lit(<<38, 103, 116, 59>>),   \* &gt;
           Lit(<<38, 97, 109, 112, 59>>),   \* &amp;
           Lit(<<38, 113, 117, 111, 116, 59>>),   \* &quot;
           Cat(<<Chr({38}), Chr({35}), Rep(Chr(Digit), 1, 0 - 1), Chr({59})>>)>>),   \* &#\d+;
     \* /(.)\1{5,}/g
     Run(5),
     \* /[\u{1F300}-\u{1F9FF}]{5,}/gu: with the u flag a character of the class is
     \* a surrogate pair, U+1F300..U+1F3FF = D83C DF00..DFFF,
     \* U+1F400..U+1F7FF = D83D DC00..DFFF, U+1F800..U+1F9FF = D83E DC00..DDFF
     Rep(Alt(<<Cat(<<Chr({55356}), Chr(57088..57343)>>),
               Cat(<<Chr({55357}), Chr(56320..57343)>>),
               Cat(<<Chr({55358}), Chr(56320..56831)>>)>>), 5, 0 - 1) >>

BOT_PATTERNS ==
  << \* /who(?:'s| is)?\s+(?:watching|here|listening)\s+(?:in|from)?\s*\d{4}/gi
     Cat(<<LitCI(<<119, 104, 111>>),
           Rep(Alt(<<LitCI(<<39, 115>>), LitCI(<<32, 105, 115>>)>>), 0, 1),                \* 's |  is
           Rep(Ws, 1, 0 - 1),
           Alt(<<
           LitCI(<<119, 97, 116, 99, 104, 105, 110, 103>>),   \* watching
           LitCI(<<104, 101, 114, 101>>),   \* here
           LitCI(<<108, 105, 115, 116, 101, 110, 105, 110, 103>>)   \* listening
           >>),
           Rep(Ws, 1, 0 - 1),
           Rep(Alt(<<LitCI(<<105, 110>>), LitCI(<<102, 114, 111, 109>>)>>), 0, 1),                \* in | from
           Rep(Ws, 0, 0 - 1),
           Rep(Chr(Digit), 4, 4)>>),
     \* /^(?:first|second|third|\d+(?:st|nd|rd|th))!?$/i
     Cat(<<Bol,
           Alt(<<
           LitCI(<<102, 105, 114, 115, 116>>),   \* first
           LitCI(<<115, 101, 99, 111, 110, 100>>),   \* second
           LitCI(<<116, 104, 105, 114, 100>>),   \* third
           Cat(<<Rep(Chr(Digit), 1, 0 - 1),
                 Alt(<<LitCI(<<115, 116>>), LitCI(<<110, 100>>), LitCI(<<114, 100>>), LitCI(<<116, 104>>)>>)>>)   \* \d+(?:st|nd|rd|th)
           >>),
           Rep(Chr({33}), 0, 1),
           Eol>>),
     \* /^(?:anyone|who)\s+(?:else\s+)?(?:here|watching|listening)/i
     Cat(<<Bol,
           Alt(<<LitCI(<<97, 110, 121, 111, 110, 101>>), LitCI(<<119, 104, 111>>)>>),                  \* anyone | who
           Rep(Ws, 1, 0 - 1),
           Rep(Cat(<<LitCI(<<101, 108, 115, 101>>), Rep(Ws, 1, 0 - 1)>>), 0, 1),                   \* else\s+
           Alt(<<
           LitCI(<<104, 101, 114, 101>>),   \* here
           LitCI(<<119, 97, 116, 99, 104, 105, 110, 103>>),   \* watching
           LitCI(<<108, 105, 115, 116, 101, 110, 105, 110, 103>>)   \* listening
           >>)>>),
     \* /^(?:like|thumbs?\s*up)\s+if\s+you/i
     Cat(<<Bol,
           Alt(<<LitCI(<<108, 105, 107, 101>>),                                     \* like
                 Cat(<<LitCI(<<116, 104, 117, 109, 98>>), Rep(Chr(CaseSet(115)), 0, 1), Rep(Ws, 0, 0 - 1), LitCI(<<117, 112>>)>>)>>),  \* thumbs?\s*up
           Rep(Ws, 1, 0 - 1), LitCI(<<105, 102>>), Rep(Ws, 1, 0 - 1), LitCI(<<121, 111, 117>>)>>) >>      \* \s+if\s+you

(***************************************************************************)
(* CommentFilter: the classifier                                           *)
(*                                                                         *)
(* A comment is a record: text (hasText FALSE when the field is absent),   *)
(* authorChannelId, and for a top-level comment replies (hasReplies FALSE  *)
(* when the field is no array).  A channel id or an option flag that is    *)
(* absent has the value Undefined; an option flag is "true", "false" or    *)
(* Undefined.                                                              *)
(***************************************************************************)
Undefined == "undefined"
\* the truthiness of a string-or-undefined value
Truthy(v) == v # Undefined /\ v # ""
\* RegExp.prototype.test after pattern.lastIndex = 0, over a pattern table
AnyTest(patterns, text) == \E k \in 1..Len(patterns) : Test(patterns[k], text, 0)

\* String.prototype.split(/\s+/): the tokens of s from offset start on
RECURSIVE SplitWhiteSpace(_, _)
SplitWhiteSpace(s, start) ==
  LET ws == {i \in start..(Len(s) - 1) : s[i + 1] \in WhiteSpace}
  IN  IF ws = {} THEN <<SubSeq(s, start + 1, Len(s))>>
      ELSE LET i   == SetMin(ws)
               non == {j \in i..(Len(s) - 1) : s[j + 1] \notin WhiteSpace}
               e   == IF non = {} THEN Len(s) ELSE SetMin(non)
           IN  <<SubSeq(s, start + 1, i)>> \o SplitWhiteSpace(s, e)

\* a slip in the comparison: count >= words.length * 0.4
isRepeatedTextAtLeast(text) ==
  LET words == SplitWhiteSpace(ToLowerCase(text), 0)
      WordCount(word) == Cardinality({k \in 1..Len(words) : words[k] = word})
  IN  IF Len(words) < 5 THEN FALSE
      ELSE \E k \in 1..Len(words) :
              /\ Len(words[k]) > 2
              /\ WordCount(words[k]) * 10 >= Len(words) * 4
\* count > words.length * 0.4, computed in tenths (the double product
\* n * 0.4 compares like 4n/10 for every n below 2000)
isRepeatedText(text) ==
  LET words == SplitWhiteSpace(ToLowerCase(text), 0)
      \* wordCounts.get(word)
      WordCount(word) == Cardinality({k \in 1..Len(words) : words[k] = word})
  IN  IF Len(words) < 5 THEN FALSE
      ELSE \E k \in 1..Len(words) :
              /\ Len(words[k]) > 2
              /\ WordCount(words[k]) * 10 > Len(words) * 4

\* the code units of a class of letters under the i flag
CaseSets(str) == UNION {CaseSet(str[k]) : k \in 1..Len(str)}
isGibberish(text) ==
  LET
      \* /[\s\.,!?;:'"]/g
      SpaceOrPunctuation ==
        Chr(WhiteSpace \cup {46, 44, 33, 63, 59, 58, 39, 34})
      legitimatePatterns ==
        << LitCI(<<103, 105, 116, 104, 117, 98>>),                                            \* /github/i
           LitCI(<<115, 116, 97, 99, 107, 111, 118, 101, 114, 102, 108, 111, 119>>),    \* /stackoverflow/i
           Cat(<<LitCI(<<104, 116, 116, 112>>), Rep(Chr(CaseSet(115)), 0, 1), Lit(<<58, 47, 47>>)>>),   \* /https?:\/\//i
           Alt(<<LitCI(<<101, 114, 114, 111, 114, 58>>), LitCI(<<119, 97, 114, 110, 105, 110, 103, 58>>), LitCI(<<102, 97, 116, 97, 108, 58>>)>>),   \* /error:|warning:|fatal:/i
           Alt(<<LitCI(<<110, 112, 109>>), LitCI(<<121, 97, 114, 110>>), LitCI(<<112, 105, 112>>), LitCI(<<100, 111, 99, 107, 101, 114>>), LitCI(<<103, 105, 116>>)>>) >>   \* /npm|yarn|pip|docker|git/i
      keyboardPatterns ==
        << \* /^(asdf|qwer|zxcv|hjkl|yuio)+$/i
           Cat(<<Bol, Rep(Alt(<<LitCI(<<97, 115, 100, 102>>), LitCI(<<113, 119, 101, 114>>), LitCI(<<122, 120, 99, 118>>), LitCI(<<104, 106, 107, 108>>), LitCI(<<121, 117, 105, 111>>)>>), 1, 0 - 1), Eol>>),
           \* /^(abcd|efgh|ijkl|mnop|qrst|uvwx)+$/i
           Cat(<<Bol, Rep(Alt(<<LitCI(<<97, 98, 99, 100>>), LitCI(<<101, 102, 103, 104>>), LitCI(<<105, 106, 107, 108>>), LitCI(<<109, 110, 111, 112>>), LitCI(<<113, 114, 115, 116>>), LitCI(<<117, 118, 119, 120>>)>>), 1, 0 - 1), Eol>>),
           \* /^[1234567890]+$/
           Cat(<<Bol, Rep(Chr(Digit), 1, 0 - 1), Eol>>) >>
      \* /^[asdfghjkl]+$/i
      HomeRowPattern ==
        Cat(<<Bol, Rep(Chr(CaseSets(<<97, 115, 100, 102, 103, 104, 106, 107, 108>>)), 1, 0 - 1), Eol>>)
      \* /[bcdfghjklmnpqrstvwxyz]{8,}/gi
      ConsonantRunPattern ==
        Rep(Chr(CaseSets(<<98, 99, 100, 102, 103, 104, 106, 107, 108, 109, 110, 112, 113, 114, 115, 116, 118, 119, 120, 121, 122>>)), 8, 0 - 1)
      cleanText == ReplaceAll(text, SpaceOrPunctuation, Const(<<>>))
  IN  IF Len(cleanText) < 8 THEN FALSE
      ELSE IF AnyTest(legitimatePatterns, text) THEN FALSE
      ELSE IF AnyTest(keyboardPatterns, cleanText) THEN TRUE
      ELSE IF Test(HomeRowPattern, cleanText, 0) THEN TRUE
      ELSE Test(ConsonantRunPattern, cleanText, 0)

\* the spam, noise and bot checks of shouldFilterComment on a text
SpamCheck(text) == AnyTest(SPAM_PATTERNS, text) \/ isRepeatedText(text)
NoiseCheck(text) ==
  \/ AnyTest(NOISE_PATTERNS, text)
  \/ Len(Trim(text)) = 0
  \/ isGibberish(text)
BotCheck(text) == AnyTest(BOT_PATTERNS, text)

\* the same function without the author test
shouldFilterCommentNoExemption(cmt, opts, vid) ==
  IF opts.enableFiltering = "false" THEN FALSE
  ELSE LET text == IF cmt.hasText THEN cmt.text ELSE <<>>
       IN  \/ opts.removeSpam # "false" /\ SpamCheck(text)
           \/ opts.removeNoise # "false" /\ NoiseCheck(text)
           \/ opts.removeUnrelated # "false" /\ BotCheck(text)
\* a slip in the flag tests: "if (options.removeSpam)" and so on, an omitted
\* flag counting as disabled
shouldFilterCommentTruthyFlags(cmt, opts, vid) ==
  IF opts.enableFiltering = "false" THEN FALSE
  ELSE IF Truthy(vid) /\ cmt.authorChannelId = vid
  THEN FALSE
  ELSE LET text == IF cmt.hasText THEN cmt.text ELSE <<>>
       IN  \/ opts.removeSpam = "true" /\ SpamCheck(text)
           \/ opts.removeNoise = "true" /\ NoiseCheck(text)
           \/ opts.removeUnrelated = "true" /\ BotCheck(text)
shouldFilterComment(cmt, opts, vid) ==
  IF opts.enableFiltering = "false" THEN FALSE
  ELSE IF Truthy(vid) /\ cmt.authorChannelId = vid
  THEN FALSE
  ELSE LET text == IF cmt.hasText THEN cmt.text ELSE <<>>     \* cmt.text || ''
       IN  \/ opts.removeSpam # "false" /\ SpamCheck(text)
           \/ opts.removeNoise # "false" /\ NoiseCheck(text)
           \/ opts.removeUnrelated # "false" /\ BotCheck(text)

(***************************************************************************)
(* CommentFilter.filterComments and getFilterStats                         *)
(*                                                                         *)
(* The comment objects of a call are the elements of the input array; the  *)
(* returned array is given by the input positions of its elements, in      *)
(* order, and by whether it is the input array itself.                     *)
(***************************************************************************)
\* Array.prototype.filter(c => !shouldFilterComment(c, ...)): the positions kept
RECURSIVE KeptPositions(_, _, _, _)
KeptPositions(cs, opts, vid, k) ==
  IF k > Len(cs) THEN <<>>
  ELSE (IF shouldFilterComment(cs[k], opts, vid) THEN <<>> ELSE <<k>>)
         \o KeptPositions(cs, opts, vid, k + 1)
\* a slip in the replies filter: the replies of a dropped comment are
\* filtered too
FilterRepliesOfDropped(cmt, opts, vid) ==
  IF cmt.hasReplies
  THEN [cmt EXCEPT !.replies = SelectSeq(cmt.replies, LAMBDA r :
          ~shouldFilterComment(r, opts, vid))]
  ELSE cmt
\* a slip in the replies filter: each reply is judged as its parent's author
FilterRepliesAsParent(cmt, opts, vid) ==
  IF /\ ~shouldFilterComment(cmt, opts, vid)
     /\ cmt.hasReplies
  THEN [cmt EXCEPT !.replies = SelectSeq(cmt.replies, LAMBDA r :
          ~shouldFilterComment([r EXCEPT !.authorChannelId = cmt.authorChannelId],
                               opts, vid))]
  ELSE cmt
\* the comment object after the filter callback has run on it
FilterReplies(cmt, opts, vid) ==
  IF /\ ~shouldFilterComment(cmt, opts, vid)
     /\ cmt.hasReplies
  THEN LET kept == KeptPositions(cmt.replies, opts, vid, 1)
       IN  [cmt EXCEPT !.replies = [j \in 1..Len(kept) |-> cmt.replies[kept[j]]]]
  ELSE cmt
AllPositions(cs) == [k \in 1..Len(cs) |-> k]
filterComments(cs, opts, vid) ==
  IF opts.enableFiltering = "false"
  THEN [same |-> TRUE, items |-> AllPositions(cs), heap |-> cs]
  ELSE [ same  |-> FALSE,
         items |-> KeptPositions(cs, opts, vid, 1),
         heap  |-> [k \in 1..Len(cs) |-> FilterReplies(cs[k], opts, vid)] ]

\* ((filtered / total) * 100).toFixed(1): the nearest tenth, the larger one on
\* a tie
ToFixed1(filtered, total) ==
  LET tenths == (filtered * 2000 + total) \div (2 * total)
  IN  NumberToString(tenths \div 10) \o <<46>> \o NumberToString(tenths % 10)
\* options = {}: every flag omitted
DefaultOptions ==
  [enableFiltering |-> Undefined, removeSpam |-> Undefined,
   removeNoise |-> Undefined, removeUnrelated |-> Undefined]
\* the same function classifying with the default options
getFilterStatsDefaultOptions(cs, opts, vid) ==
  LET total    == Len(cs)
      filtered == Cardinality({k \in 1..Len(cs) :
                     shouldFilterComment(cs[k], DefaultOptions, vid)})
  IN  [ total      |-> total,
        filtered   |-> filtered,
        kept       |-> total - filtered,
        filterRate |-> (IF total > 0 THEN ToFixed1(filtered, total) ELSE <<48>>) \o <<37>> ]
\* a slip in the count: the comments kept are counted as filtered
getFilterStatsCountsKept(cs, opts, vid) ==
  LET total    == Len(cs)
      filtered == Cardinality({k \in 1..Len(cs) :
                     ~shouldFilterComment(cs[k], opts, vid)})
  IN  [ total      |-> total,
        filtered   |-> filtered,
        kept       |-> total - filtered,
        filterRate |-> (IF total > 0 THEN ToFixed1(filtered, total) ELSE <<48>>) \o <<37>> ]
getFilterStats(cs, opts, vid) ==
  LET total    == Len(cs)
      filtered == Cardinality({k \in 1..Len(cs) :
                     shouldFilterComment(cs[k], opts, vid)})
  IN  [ total      |-> total,
        filtered   |-> filtered,
        kept       |-> total - filtered,
        filterRate |-> (IF total > 0 THEN ToFixed1(filtered, total) ELSE <<48>>) \o <<37>> ]

(***************************************************************************)
(* CommentFilter: the calls tried.  shouldFilterComment is called on one   *)
(* comment with every combination of option flags; filterComments and      *)
(* getFilterStats are called on a list of at most MaxComments top-level    *)
(* comments with at most MaxReplies replies each.                          *)
(***************************************************************************)
\* the comment texts tried
CommentTexts ==
  [ NiceVideo |->   \* nice video
      <<110, 105, 99, 101, 32, 118, 105, 100, 101, 111>>,
    CheckOutMyChannel |->   \* check out my channel
      <<99, 104, 101, 99, 107, 32, 111, 117, 116, 32, 109, 121, 32, 99, 104, 97, 110, 110, 101, 108>>,
    ShortLink |->   \* see bit.ly/x
      <<115, 101, 101, 32, 98, 105, 116, 46, 108, 121, 47, 120>>,
    ThreeUrls |->   \* http://a http://b http://c
      <<104, 116, 116, 112, 58, 47, 47, 97, 32, 104, 116, 116, 112, 58, 47, 47, 98, 32, 104, 116, 116, 112, 58, 47, 47, 99>>,
    AsdfFiveTimes |->   \* asdf asdf asdf asdf asdf
      <<97, 115, 100, 102, 32, 97, 115, 100, 102, 32, 97, 115, 100, 102, 32, 97, 115, 100, 102, 32, 97, 115, 100, 102>>,
    BoldHi |->   \* <b>hi</b>
      <<60, 98, 62, 104, 105, 60, 47, 98, 62>>,
    WowBangs |->   \* wow!!!!!!
      <<119, 111, 119, 33, 33, 33, 33, 33, 33>>,
    FiveEmojis |->   \* five U+1F600
      <<55357, 56832, 55357, 56832, 55357, 56832, 55357, 56832, 55357, 56832>>,
    Blank |->   \* two spaces
      <<32, 32>>,
    KeyboardMash |->   \* qwerasdf
      <<113, 119, 101, 114, 97, 115, 100, 102>>,
    TwoOfFive |->   \* spam spam is not good
      <<115, 112, 97, 109, 32, 115, 112, 97, 109, 32, 105, 115, 32, 110, 111, 116, 32, 103, 111, 111, 100>>,
    ThreeOfSeven |->   \* spam spam spam a b c d
      <<115, 112, 97, 109, 32, 115, 112, 97, 109, 32, 115, 112, 97, 109, 32, 97, 32, 98, 32, 99, 32, 100>>,
    ThreeOfEight |->   \* spam spam spam a b c d e
      <<115, 112, 97, 109, 32, 115, 112, 97, 109, 32, 115, 112, 97, 109, 32, 97, 32, 98, 32, 99, 32, 100, 32, 101>>,
    FourIdentical |->   \* asdf asdf asdf asdf
      <<97, 115, 100, 102, 32, 97, 115, 100, 102, 32, 97, 115, 100, 102, 32, 97, 115, 100, 102>>,
    ShortTokens |->   \* ab ab ab ab ab
      <<97, 98, 32, 97, 98, 32, 97, 98, 32, 97, 98, 32, 97, 98>>,
    FirstBang |->   \* First!
      <<70, 105, 114, 115, 116, 33>>,
    WhoIsWatching |->   \* who is watching in 2024
      <<119, 104, 111, 32, 105, 115, 32, 119, 97, 116, 99, 104, 105, 110, 103, 32, 105, 110, 32, 50, 48, 50, 52>> ]
\* top-level comments and their replies: a viewer's comment that is kept, a
\* viewer's "First!" and the uploader's "First!"
ThreadKinds ==
  LET ReplyKinds ==
        { [text |-> CommentTexts.NiceVideo, hasText |-> TRUE, authorChannelId |-> "UCviewer"],
          [text |-> CommentTexts.FirstBang, hasText |-> TRUE, authorChannelId |-> "UCviewer"],
          [text |-> CommentTexts.FirstBang, hasText |-> TRUE, authorChannelId |-> "UCowner"] }
  IN {[text |-> r.text, hasText |-> TRUE, authorChannelId |-> r.authorChannelId,
       replies |-> rs, hasReplies |-> TRUE] : r \in ReplyKinds, rs \in ListsOf(ReplyKinds, MaxReplies)}
       \cup {[text |-> CommentTexts.NiceVideo, hasText |-> TRUE, authorChannelId |-> "UCviewer",
              replies |-> <<>>, hasReplies |-> FALSE]}

\* CommentFilter.shouldFilterComment(comment, options, videoAuthorChannelId)
CallShouldFilterComment ==
  LET Flags == {"true", "false", Undefined}
      AllOptions == [enableFiltering : Flags, removeSpam : Flags, removeNoise : Flags,
                     removeUnrelated : Flags]
      ChannelIds == {"UCowner", "UCviewer", "", Undefined}
      CommentKinds ==
        {[text |-> t, hasText |-> TRUE, authorChannelId |-> a] :
            t \in {CommentTexts[k] : k \in DOMAIN CommentTexts}, a \in ChannelIds}
          \cup {[text |-> <<>>, hasText |-> FALSE, authorChannelId |-> a] : a \in ChannelIds}
  IN
  /\ pcF = "idle"
  /\ \E c \in CommentKinds, o \in AllOptions, v \in {"UCowner", "", Undefined} :
       /\ comment' = c
       /\ options' = o
       /\ videoAuthorChannelId' = v
       /\ shouldFilter' = shouldFilterComment(c, o, v)
  /\ pcF' = "classified"
  /\ UNCHANGED <<commentsAtCall, comments, returned, stats>>
  /\ UNCHANGED <<samplerVars, cleanerVars, parserVars, fetcherVars, scannerVars, transcriptVars, spawnVars, tempVars, commentsVars>>

\* CommentFilter.filterComments(comments, options, videoAuthorChannelId)
CallFilterComments ==
  /\ pcF = "idle"
  /\ \E cs \in ListsOf(ThreadKinds, MaxComments),
        o \in { DefaultOptions,
                [DefaultOptions EXCEPT !.enableFiltering = "false"],
                [DefaultOptions EXCEPT !.enableFiltering = "true",
                                       !.removeUnrelated = "false"] },
        v \in {"UCowner", Undefined} :
       /\ commentsAtCall' = cs
       /\ options' = o
       /\ videoAuthorChannelId' = v
       /\ LET r == filterComments(cs, o, v)
          IN  /\ comments' = r.heap
              /\ returned' = [same |-> r.same, items |-> r.items]
  /\ pcF' = "filtered"
  /\ UNCHANGED <<comment, shouldFilter, stats>>
  /\ UNCHANGED <<samplerVars, cleanerVars, parserVars, fetcherVars, scannerVars, transcriptVars, spawnVars, tempVars, commentsVars>>

\* CommentFilter.getFilterStats(comments, options, videoAuthorChannelId) on the
\* list filterComments was called on
CallGetFilterStats ==
  /\ pcF = "filtered"
  /\ stats' = getFilterStats(comments, options, videoAuthorChannelId)
  /\ pcF' = "stats"
  /\ UNCHANGED <<comment, options, videoAuthorChannelId, shouldFilter,
                 commentsAtCall, comments, returned>>
  /\ UNCHANGED <<samplerVars, cleanerVars, parserVars, fetcherVars, scannerVars, transcriptVars, spawnVars, tempVars, commentsVars>>

\* the caller has taken the verdict, or the list and the statistics
ReturnFilter ==
  /\ pcF \in {"classified", "stats"}
  /\ pcF' = "idle"
  /\ comment' = [text |-> <<>>, hasText |-> FALSE, authorChannelId |-> Undefined]
  /\ options' = DefaultOptions
  /\ videoAuthorChannelId' = Undefined
  /\ shouldFilter' = FALSE
  /\ commentsAtCall' = <<>>
  /\ comments' = <<>>
  /\ returned' = [same |-> TRUE, items |-> <<>>]
  /\ stats' = [total |-> 0, filtered |-> 0, kept |-> 0, filterRate |-> <<>>]
  /\ UNCHANGED <<samplerVars, cleanerVars, parserVars, fetcherVars, scannerVars, transcriptVars, spawnVars, tempVars, commentsVars>>

NextFilter ==
  CallShouldFilterComment \/ CallFilterComments \/ CallGetFilterStats \/ ReturnFilter

\* C4 as stated: whenever comment.authorChannelId equals videoAuthorChannelId,
\* an absent videoAuthorChannelId included, shouldFilterComment returns false.
C4_AuthorExemption ==
  (pcF = "classified" /\ comment.authorChannelId = videoAuthorChannelId)
     => ~shouldFilter

\* C4 amended: whenever videoAuthorChannelId is present (a non-empty string)
\* and comment.authorChannelId equals it, shouldFilterComment returns false,
\* whatever the text and the options.
C4_AuthorExemptionWhenKnown ==
  ( /\ pcF = "classified"
    /\ Truthy(videoAuthorChannelId)
    /\ comment.authorChannelId = videoAuthorChannelId )
     => ~shouldFilter

\* the uploader's comment is spam by the enabled spam check, and is kept
C4_Witness ==
  /\ pcF = "classified"
  /\ videoAuthorChannelId = "UCowner"
  /\ comment.authorChannelId = "UCowner"
  /\ options.enableFiltering # "false"
  /\ options.removeSpam # "false"
  /\ comment.hasText /\ SpamCheck(comment.text)
  /\ ~shouldFilter

\* C7: with enableFiltering false, filterComments returns the top-level
\* comments of the input in the input's order, leaves every comment and every
\* replies list as it was, and getFilterStats reports filtered = 0.
C7_DisableBypass ==
  (pcF \in {"filtered", "stats"} /\ options.enableFiltering = "false")
     => /\ returned.items = AllPositions(commentsAtCall)
        /\ comments = commentsAtCall
        /\ pcF = "stats" => stats.filtered = 0

\* filtering is disabled on a list holding a comment and a reply that the
\* default options drop
C7_Witness ==
  /\ pcF = "stats"
  /\ options.enableFiltering = "false"
  /\ \E k \in 1..Len(commentsAtCall) :
       shouldFilterComment(commentsAtCall[k], DefaultOptions, videoAuthorChannelId)
  /\ \E k \in 1..Len(commentsAtCall) :
       /\ commentsAtCall[k].hasReplies
       /\ \E j \in 1..Len(commentsAtCall[k].replies) :
            shouldFilterComment(commentsAtCall[k].replies[j], DefaultOptions,
                                videoAuthorChannelId)
  /\ stats.total = Len(commentsAtCall)

C20_FilterCommentsFrame ==
  pcF \in {"filtered", "stats"}
     => /\ Len(comments) = Len(commentsAtCall)
        /\ \A k \in 1..Len(commentsAtCall) :
              LET now == comments[k]
                  was == commentsAtCall[k]
              IN  /\ [now EXCEPT !.replies = <<>>] = [was EXCEPT !.replies = <<>>]
                  /\ \E f \in [1..Len(now.replies) -> 1..Len(was.replies)] :
                        /\ \A j \in 1..Len(now.replies) : now.replies[j] = was.replies[f[j]]
                        /\ \A j \in 2..Len(now.replies) : f[j - 1] < f[j]
                  /\ (\A j \in 1..Len(returned.items) : returned.items[j] # k)
                        => now = was

\* a dropped top-level comment keeps a reply the filter rejects, while a kept
\* one has lost such a reply
C20_Witness ==
  /\ pcF = "filtered"
  /\ \E k \in 1..Len(commentsAtCall) :
       /\ \A j \in 1..Len(returned.items) : returned.items[j] # k
       /\ Len(comments[k].replies) = 1
       /\ shouldFilterComment(comments[k].replies[1], options, videoAuthorChannelId)
  /\ \E k \in 1..Len(commentsAtCall) :
       Len(comments[k].replies) < Len(commentsAtCall[k].replies)

\* C12: getFilterStats returns total = the number of top-level comments,
\* filtered = the number of them shouldFilterComment rejects, kept = total -
\* filtered, kept being the length of the array filterComments returns on the
\* same list; filterRate is "0%" when total is 0.
C12_FilterStats ==
  pcF = "stats"
     => /\ stats.total = Len(commentsAtCall)
        /\ stats.filtered = Cardinality({k \in 1..Len(commentsAtCall) :
              shouldFilterComment(commentsAtCall[k], options, videoAuthorChannelId)})
        /\ stats.kept = stats.total - stats.filtered
        /\ stats.kept = Len(returned.items)
        /\ stats.total = 0 => stats.filterRate = <<48, 37>>

\* one of two top-level comments is rejected: the rate is "50.0%"
C12_Witness ==
  /\ pcF = "stats"
  /\ stats.total = 2 /\ stats.filtered = 1 /\ stats.kept = 1
  /\ stats.filterRate = <<53, 48, 46, 48, 37>>

\* C18: with only the spam check enabled and no spam pattern matching, the
\* comment is filtered exactly when its text, lower-cased and split on
\* whitespace into n tokens, has n >= 5 and a token of length > 2 that occurs
\* more than 40% of n times, n counting the tokens of every length: 2 of 5 is
\* not flagged, 5 of 5 is.
C18_RepeatedTokenRule ==
  LET text == IF comment.hasText THEN comment.text ELSE <<>>
      tokens == SplitWhiteSpace(ToLowerCase(text), 0)
      n == Len(tokens)
      Occurrences(t) == Cardinality({k \in 1..n : tokens[k] = t})
  IN  ( /\ pcF = "classified"
        /\ options.enableFiltering # "false"
        /\ ~(Truthy(videoAuthorChannelId) /\ comment.authorChannelId = videoAuthorChannelId)
        /\ options.removeSpam # "false"
        /\ options.removeNoise = "false"
        /\ options.removeUnrelated = "false"
        /\ ~AnyTest(SPAM_PATTERNS, text) )
         => ( shouldFilter <=>
                /\ n >= 5
                /\ \E k \in 1..n : Len(tokens[k]) > 2 /\ 5 * Occurrences(tokens[k]) > 2 * n )

\* "spam spam is not good", 2 of 5 tokens alike, passes the spam check, and
\* no other test is enabled
C18_Witness ==
  /\ pcF = "classified"
  /\ comment.text = CommentTexts.TwoOfFive
  /\ comment.authorChannelId = "UCviewer"
  /\ options = [DefaultOptions EXCEPT !.removeNoise = "false", !.removeUnrelated = "false"]
  /\ ~shouldFilter

\* C13: with filtering enabled and the comment not exempt as the uploader's,
\* shouldFilterComment returns true exactly when the spam, the noise or the bot
\* check matches and its flag is not false; a check whose flag is false never
\* causes filtering and an omitted flag counts as enabled.
C13_EnabledChecks ==
  ( /\ pcF = "classified"
    /\ options.enableFiltering # "false"
    /\ ~(Truthy(videoAuthorChannelId) /\ comment.authorChannelId = videoAuthorChannelId) )
     => LET text == IF comment.hasText THEN comment.text ELSE <<>>
            matching == {f \in {"removeSpam", "removeNoise", "removeUnrelated"} :
                           CASE f = "removeSpam" -> SpamCheck(text)
                             [] f = "removeNoise" -> NoiseCheck(text)
                             [] OTHER -> BotCheck(text)}
            disabled == {f \in {"removeSpam", "removeNoise", "removeUnrelated"} :
                           options[f] = "false"}
        IN  shouldFilter <=> (matching \ disabled # {})

\* a self-promotion comment passes because removeSpam is false, the other
\* flags being omitted and their checks not matching
C13_Witness ==
  /\ pcF = "classified"
  /\ options = [DefaultOptions EXCEPT !.removeSpam = "false"]
  /\ comment.authorChannelId = "UCviewer"
  /\ comment.text = CommentTexts.CheckOutMyChannel
  /\ ~shouldFilter

(***************************************************************************)
(* CommentHandler.fetchAllComments                                         *)
(*                                                                         *)
(* The comments are told apart by nothing the paging loop reads, so a list *)
(* of comments is given by its length: a response carries the number of    *)
(* its items and the number of them whose text matches the language        *)
(* pattern, and allComments is the number of comments collected.  The      *)
(* CommentFilter called at the end keeps some of them.                     *)
(***************************************************************************)
maxPages == 10
maxCommentsPerPage == 100

\* what "await this.youtube.commentThreads.list(params)" yields: a response
\* (data.items absent, empty, of one item or of a full page; nextPageToken
\* absent, empty or a token, the same one each time) or a thrown error
Responses ==
  LET Tokens == {Undefined, "", "QURTSl9p"}
      Shapes == {[hasItems |-> FALSE, items |-> 0, matching |-> 0]}
                  \cup UNION {{[hasItems |-> TRUE, items |-> n, matching |-> m] :
                                  m \in {0, n}} : n \in {0, 1, maxCommentsPerPage}}
  IN  {[error |-> "none", hasItems |-> sh.hasItems, items |-> sh.items,
        matching |-> sh.matching, nextPageToken |-> t] : sh \in Shapes, t \in Tokens}
        \cup {[error |-> e, hasItems |-> FALSE, items |-> 0, matching |-> 0,
               nextPageToken |-> Undefined] :
                 e \in {"commentsDisabled", "forbidden", "other"}}

NoFetchResult ==
  [kind |-> "none", fetchedCount |-> 0, filteredCount |-> 0, pagesProcessed |-> 0,
   limited |-> FALSE]
\* fetchAllComments(videoId, sortBy, lang, noFilter) up to the do loop; lang is
\* omitted, a key of langPatterns or another string
CallFetchAllComments ==
  /\ pcA = "idle"
  /\ fetchArgs' \in [lang : {Undefined, "ja", "fr"}, noFilter : BOOLEAN]
  /\ pageCount' = 0
  /\ nextPageToken' = Undefined
  /\ allComments' = 0
  /\ pcA' = "fetching"
  /\ UNCHANGED <<response, fetchResult>>
  /\ UNCHANGED <<samplerVars, cleanerVars, parserVars, filterVars, scannerVars, transcriptVars, spawnVars, tempVars, commentsVars>>

\* a slip in the safety check: one page too many
PageLimitReachedLate(count) == count > maxPages
\* if (pageCount >= maxPages) break
PageLimitReached(count) == count >= maxPages

\* a catch block that answers with what the earlier pages gave
CatchKeepsPages(error, collected) ==
  [pc |-> "returned",
   result |-> [NoFetchResult EXCEPT !.kind = "json", !.fetchedCount = collected]]
\* catch (error): createErrorResponse('Comments are disabled for this video')
\* for a 403 whose message includes 'commentsDisabled', the quota / API key
\* error for another 403, 'Failed to fetch all comments: ...' otherwise
CatchFetchError(error, collected) ==
  [pc |-> IF error = "commentsDisabled" THEN "returned" ELSE "threw",
   result |-> [NoFetchResult EXCEPT !.kind = error]]

\* one pass through the body of the do loop and its while test, or the catch
\* block when the request throws
FetchPage ==
  /\ pcA = "fetching"
  /\ pageCount' = pageCount + 1
  /\ \E r \in Responses :
       /\ response' = r
       /\ IF r.error # "none"
          THEN /\ pcA' = CatchFetchError(r.error, allComments).pc
               /\ fetchResult' = CatchFetchError(r.error, allComments).result
               /\ UNCHANGED <<nextPageToken, allComments>>
          ELSE IF ~r.hasItems \/ r.items = 0
          THEN /\ pcA' = "collected"
               /\ UNCHANGED <<nextPageToken, allComments, fetchResult>>
          ELSE /\ allComments' = allComments +
                    (IF fetchArgs.lang = "ja" THEN r.matching ELSE r.items)
               /\ nextPageToken' = r.nextPageToken
               /\ pcA' = IF PageLimitReached(pageCount') THEN "collected"
                         ELSE IF Truthy(r.nextPageToken) THEN "fetching"
                         ELSE "collected"
               /\ UNCHANGED fetchResult
  /\ UNCHANGED fetchArgs
  /\ UNCHANGED <<samplerVars, cleanerVars, parserVars, filterVars, scannerVars, transcriptVars, spawnVars, tempVars, commentsVars>>

\* after the loop: CommentFilter.filterComments unless noFilter, and the result
FinishFetch ==
  /\ pcA = "collected"
  /\ \E dropped \in {0, allComments \div 2, allComments} :
       LET filteredCount == IF fetchArgs.noFilter THEN 0 ELSE dropped
       IN  fetchResult' = [kind |-> "json",
                           fetchedCount |-> allComments - filteredCount,
                           filteredCount |-> filteredCount,
                           pagesProcessed |-> pageCount,
                           limited |-> pageCount >= maxPages]
  /\ pcA' = "returned"
  /\ UNCHANGED <<fetchArgs, pageCount, nextPageToken, response, allComments>>
  /\ UNCHANGED <<samplerVars, cleanerVars, parserVars, filterVars, scannerVars, transcriptVars, spawnVars, tempVars, commentsVars>>

\* the caller has taken the response or the error
ReturnFetch ==
  /\ pcA \in {"returned", "threw"}
  /\ pcA' = "idle"
  /\ fetchArgs' = [lang |-> Undefined, noFilter |-> FALSE]
  /\ pageCount' = 0
  /\ nextPageToken' = Undefined
  /\ response' = [error |-> "none", hasItems |-> FALSE, items |-> 0, matching |-> 0, nextPageToken |-> Undefined]
  /\ allComments' = 0
  /\ fetchResult' = NoFetchResult
  /\ UNCHANGED <<samplerVars, cleanerVars, parserVars, filterVars, scannerVars, transcriptVars, spawnVars, tempVars, commentsVars>>

NextFetcher == CallFetchAllComments \/ FetchPage \/ FinishFetch \/ ReturnFetch

\* C14: fetchAllComments makes at most 10 commentThreads.list requests and
\* then returns or throws, whatever page tokens the responses carry; it
\* collects at most 100 comments per request, so at most 1000; and it requests
\* a further page only after a response with items and a nextPageToken.
C14_FetchAllBounded ==
  /\ [](/\ pageCount <= maxPages
        /\ allComments <= pageCount * maxCommentsPerPage
        /\ allComments <= 1000
        /\ fetchResult.fetchedCount <= 1000
        /\ (pcA = "fetching" /\ pageCount > 0)
              => /\ response.hasItems /\ response.items > 0
                 /\ Truthy(response.nextPageToken))
  /\ (pcA = "fetching") ~> (pcA \in {"returned", "threw"})

\* ten full pages, each with the same token, were fetched and returned
C14_Witness ==
  /\ pcA = "returned"
  /\ fetchResult.kind = "json"
  /\ fetchResult.pagesProcessed = maxPages
  /\ fetchResult.fetchedCount = 1000
  /\ Truthy(response.nextPageToken)

\* C28: when a commentThreads.list request of fetchAllComments fails, on the
\* first page or a later one, the call does not answer with a success result:
\* it returns the "Comments are disabled" error response for a 403 with
\* commentsDisabled, throws the quota / API key error for another 403 and
\* throws "Failed to fetch all comments" otherwise.
C28_FetchErrorReported ==
  (response.error # "none" /\ pcA # "idle")
     => /\ pcA \in {"returned", "threw"}
        /\ fetchResult.kind = response.error
        /\ fetchResult.kind # "json"
        /\ fetchResult.fetchedCount = 0
        /\ (pcA = "returned") <=> (response.error = "commentsDisabled")

\* the third request failed with a 403 that is not commentsDisabled, after two
\* pages had been collected
C28_Witness ==
  /\ pcA = "threw"
  /\ response.error = "forbidden"
  /\ pageCount = 3
  /\ allComments = 2 * maxCommentsPerPage

\* C29: the result of fetchAllComments says "limited to 10 pages" only when
\* the last fetched response still had a nextPageToken; when the comments end
\* on a page without nextPageToken the message is "Fetched all ..." and
\* pagesProcessed is the number of list requests made.
C29_LimitedOnlyWhenCut ==
  (pcA = "returned" /\ fetchResult.kind = "json")
     => /\ fetchResult.pagesProcessed = pageCount
        /\ fetchResult.limited => Truthy(response.nextPageToken)

(***************************************************************************)
(* CommentFilter.shouldFilterComment on the shared pattern tables          *)
(*                                                                         *)
(* SPAM_PATTERNS, NOISE_PATTERNS and BOT_PATTERNS are static: the RegExp   *)
(* objects live as long as the process and a g-flag pattern keeps, in      *)
(* lastIndex, where its last successful test() ended.  test() starts the   *)
(* search at lastIndex and sets it to the end of the match, or to 0 when   *)
(* nothing is found.  Patterns without the g flag ignore lastIndex.        *)
(***************************************************************************)
\* a slip in the loops: the scanning position of the previous call is kept
KeepLastIndex(li) == li
\* pattern.lastIndex = 0
ResetLastIndex(li) == 0

\* for (const pattern of table) { pattern.lastIndex = 0; if (pattern.test(text))
\* return true }, from the k-th pattern on: the first `globals` patterns of the
\* table have the g flag and their lastIndex is li[base + k]
RECURSIVE ScanTable(_, _, _, _, _, _)
ScanTable(patterns, globals, base, text, li, k) ==
  IF k > Len(patterns) THEN [hit |-> FALSE, li |-> li]
  ELSE IF k > globals
  THEN IF Test(patterns[k], text, 0) THEN [hit |-> TRUE, li |-> li]
       ELSE ScanTable(patterns, globals, base, text, li, k + 1)
  ELSE LET from == ResetLastIndex(li[base + k])
           starts == {i \in from..Len(text) : Ends(patterns[k], text, i) # {}}
       IN  IF starts = {}
           THEN ScanTable(patterns, globals, base, text,
                          [li EXCEPT ![base + k] = 0], k + 1)
           ELSE [hit |-> TRUE,
                 li |-> [li EXCEPT ![base + k] =
                            MatchEnd(patterns[k], text, SetMin(starts))]]

\* shouldFilterComment(comment, options, videoAuthorChannelId) run on tables
\* whose scanning positions are li: the verdict and the positions it leaves
shouldFilterCommentOnTables(cmt, opts, vid, li) ==
  IF opts.enableFiltering = "false" THEN [verdict |-> FALSE, li |-> li]
  ELSE IF Truthy(vid) /\ cmt.authorChannelId = vid
  THEN [verdict |-> FALSE, li |-> li]
  ELSE LET text  == IF cmt.hasText THEN cmt.text ELSE <<>>
           skip(l) == [hit |-> FALSE, li |-> l]
           spam  == IF opts.removeSpam # "false"
                    THEN ScanTable(SPAM_PATTERNS, 3, 0, text, li, 1) ELSE skip(li)
           noise == IF opts.removeNoise # "false"
                    THEN ScanTable(NOISE_PATTERNS, 4, 3, text, spam.li, 1)
                    ELSE skip(spam.li)
           bot   == IF opts.removeUnrelated # "false"
                    THEN ScanTable(BOT_PATTERNS, 1, 7, text, noise.li, 1)
                    ELSE skip(noise.li)
       IN  IF spam.hit \/ (opts.removeSpam # "false" /\ isRepeatedText(text))
           THEN [verdict |-> TRUE, li |-> spam.li]
           ELSE IF \/ noise.hit
                   \/ /\ opts.removeNoise # "false"
                      /\ (Len(Trim(text)) = 0 \/ isGibberish(text))
           THEN [verdict |-> TRUE, li |-> noise.li]
           ELSE [verdict |-> bot.hit, li |-> bot.li]

\* one call of shouldFilterComment, from its first statement to its return;
\* the function is synchronous, so calls do not interleave
ScanComment ==
  /\ \E t \in {CommentTexts[k] : k \in {"NiceVideo", "CheckOutMyChannel", "ShortLink",
                                         "BoldHi", "WowBangs", "WhoIsWatching",
                                         "FirstBang"}},
        a \in {"UCviewer", "UCowner"},
        o \in {DefaultOptions, [DefaultOptions EXCEPT !.removeSpam = "false"]} :
       LET c == [text |-> t, hasText |-> TRUE, authorChannelId |-> a]
           v == "UCowner"
           r == shouldFilterCommentOnTables(c, o, v, lastIndex)
       IN  /\ scanCall' = [comment |-> c, options |-> o, videoAuthorChannelId |-> v]
           /\ scanVerdict' = r.verdict
           /\ lastIndex' = r.li
  /\ UNCHANGED <<samplerVars, cleanerVars, parserVars, filterVars, fetcherVars, transcriptVars, spawnVars, tempVars, commentsVars>>

\* C21: shouldFilterComment returns, for the same comment, options and
\* videoAuthorChannelId, the same verdict whatever was classified before: the
\* verdict of a call made on tables left in any reachable scanning position
\* is the verdict on fresh tables.
C21_VerdictIgnoresHistory ==
  scanCall.comment.hasText =>       \* a call has been made
    scanVerdict = shouldFilterComment(scanCall.comment, scanCall.options,
                                    scanCall.videoAuthorChannelId)

\* "check out my channel" was filtered by a call made on tables where the
\* HTML tag pattern was still at the end of a match of an earlier call; the
\* self-promotion pattern is now left at the end of the text
C21_Witness ==
  /\ scanCall.comment.text = CommentTexts.CheckOutMyChannel
  /\ scanVerdict
  /\ lastIndex[2] = Len(CommentTexts.CheckOutMyChannel)
  /\ lastIndex[4] > 0

(***************************************************************************)
(* SubtitleHandler.getTranscript                                           *)
(*                                                                         *)
(* The handler awaits YoutubeTranscript.fetchTranscript up to three times  *)
(* and getTranscriptViaYtDlp; an action is the settling of one awaited     *)
(* call together with the synchronous code up to the next await.           *)
(***************************************************************************)
\* getTranscript(args) up to the first await
CallGetTranscript ==
  /\ pcT = "idle"
  /\ transcriptArgs' \in [lang : {"auto", "ja", "en"}, mode : {"full", "smart", "summary"}]
  /\ attempts' = <<>>
  /\ ytDlpCalls' = 0
  /\ transcriptResult' = "none"
  /\ pcT' = "requested"
  /\ UNCHANGED <<samplerVars, cleanerVars, parserVars, filterVars, fetcherVars, scannerVars, spawnVars, tempVars, commentsVars>>

\* an awaited YoutubeTranscript.fetchTranscript settles: with segments, with
\* an empty array, or rejected.  [] is truthy, so it ends the attempts like
\* data does and is then refused by the length test, whose error lands in the
\* outer catch; no message here includes 'Could not find'.
FetchTranscriptSettles ==
  /\ pcT \in {"requested", "ja", "default"}
  /\ \E outcome \in {"data", "empty", "throws"} :
       /\ attempts' = Append(attempts, [lang |-> pcT, outcome |-> outcome])
       /\ CASE outcome = "data" ->
                 /\ pcT' = "returned"
                 /\ transcriptResult' = "transcript"
                 /\ UNCHANGED ytDlpCalls
            [] outcome = "empty" ->
                 /\ pcT' = "ytDlpInCatch"
                 /\ ytDlpCalls' = ytDlpCalls + 1
                 /\ UNCHANGED transcriptResult
            [] outcome = "throws" /\ pcT = "requested" ->
                 /\ pcT' = IF transcriptArgs.lang \in {"auto", "ja"} THEN "ja" ELSE "default"
                 /\ UNCHANGED <<ytDlpCalls, transcriptResult>>
            [] outcome = "throws" /\ pcT = "ja" ->
                 /\ pcT' = "default"
                 /\ UNCHANGED <<ytDlpCalls, transcriptResult>>
            [] outcome = "throws" /\ pcT = "default" ->
                 /\ pcT' = "ytDlpInTry"
                 /\ ytDlpCalls' = ytDlpCalls + 1
                 /\ UNCHANGED transcriptResult
  /\ UNCHANGED transcriptArgs
  /\ UNCHANGED <<samplerVars, cleanerVars, parserVars, filterVars, fetcherVars, scannerVars, spawnVars, tempVars, commentsVars>>

\* an awaited getTranscriptViaYtDlp settles.  The call of approach 4 is a
\* "return await" inside the outer try, so its rejection is caught by the
\* outer catch, which falls back to yt-dlp; the call in the catch block
\* rejects to the caller.
YtDlpSettles ==
  /\ pcT \in {"ytDlpInTry", "ytDlpInCatch"}
  /\ \E ok \in BOOLEAN :
       IF ok
       THEN /\ pcT' = "returned"
            /\ transcriptResult' = "ytDlpTranscript"
            /\ UNCHANGED ytDlpCalls
       ELSE IF pcT = "ytDlpInTry"
       THEN /\ pcT' = "ytDlpInCatch"
            /\ ytDlpCalls' = ytDlpCalls + 1
            /\ UNCHANGED transcriptResult
       ELSE /\ pcT' = "threw"
            /\ transcriptResult' = "ytDlpError"
            /\ UNCHANGED ytDlpCalls
  /\ UNCHANGED <<transcriptArgs, attempts>>
  /\ UNCHANGED <<samplerVars, cleanerVars, parserVars, filterVars, fetcherVars, scannerVars, spawnVars, tempVars, commentsVars>>

\* the caller has taken the response or the error
ReturnTranscript ==
  /\ pcT \in {"returned", "threw"}
  /\ pcT' = "idle"
  /\ transcriptArgs' = [lang |-> "ja", mode |-> "full"]
  /\ attempts' = <<>>
  /\ ytDlpCalls' = 0
  /\ transcriptResult' = "none"
  /\ UNCHANGED <<samplerVars, cleanerVars, parserVars, filterVars, fetcherVars, scannerVars, spawnVars, tempVars, commentsVars>>

\* C23: within one getTranscript request getTranscriptViaYtDlp is entered at
\* most once, and only after youtube-transcript attempts that all failed or
\* returned nothing, the requested language first; when the fallback fails
\* the failure is reported to the caller without the fallback being run again.
C23_FallbackAtMostOnce ==
  /\ ytDlpCalls <= 1
  /\ ytDlpCalls >= 1 =>
       /\ attempts # <<>> /\ attempts[1].lang = "requested"
       /\ \A k \in 1..Len(attempts) : attempts[k].outcome \in {"throws", "empty"}
  /\ pcT = "threw" => ytDlpCalls = 1

(***************************************************************************)
(* spawnAsync                                                              *)
(*                                                                         *)
(* The promise executor spawns the child and registers the callbacks; the  *)
(* event loop then runs them one at a time.  An action is one callback.    *)
(* The child follows node's ChildProcess contract: a failed spawn emits    *)
(* 'error' before anything else and may then emit 'close' with a negative  *)
(* code; a kill() that fails emits 'error'; 'close' comes once, after the  *)
(* last 'data', with code null when a signal ended the child.              *)
(***************************************************************************)
\* a slip in the handlers: the timer is left running
clearTimeoutMissing(t) == t
\* if (timer) clearTimeout(timer): a timer that fired or was cleared stays so
clearTimeout(t) == IF t = "armed" THEN "cleared" ELSE t

\* resolve(...) / reject(...): only the first call settles a promise
Settle(p, outcome) == IF p.state = "pending" THEN outcome ELSE p

\* spawnAsync(command, args, options): the executor.  A timeout of 0 is falsy
\* and sets no timer.
CallSpawnAsync ==
  /\ pcW = "idle"
  /\ events = <<>>
  /\ spawnOptions' \in {[given |-> FALSE, timeout |-> 0], [given |-> TRUE, timeout |-> 0],
                         [given |-> TRUE, timeout |-> 5000]}
  /\ timer' = IF spawnOptions'.given /\ spawnOptions'.timeout # 0 THEN "armed" ELSE "none"
  /\ pcW' = "running"
  /\ events' = <<[kind |-> "spawn", code |-> "none"]>>
  /\ UNCHANGED <<timedOut, stdout, stderr, promise, sigterms>>
  /\ UNCHANGED <<samplerVars, cleanerVars, parserVars, filterVars, fetcherVars, scannerVars, transcriptVars, tempVars, commentsVars>>

\* child.stdout.on('data') / child.stderr.on('data'): each chunk is named by
\* its position among the callbacks
OnData ==
  /\ pcW = "running"
  /\ \A k \in 1..Len(events) : events[k].kind # "error" \/ events[k].code # "spawn"
  /\ Len(stdout) + Len(stderr) < MaxChunks
  /\ \E stream \in {"stdout", "stderr"} :
       /\ stdout' = IF stream = "stdout" THEN Append(stdout, Len(events)) ELSE stdout
       /\ stderr' = IF stream = "stderr" THEN Append(stderr, Len(events)) ELSE stderr
       /\ events' = Append(events, [kind |-> "data", code |-> stream])
  /\ UNCHANGED <<pcW, spawnOptions, timer, timedOut, promise, sigterms>>
  /\ UNCHANGED <<samplerVars, cleanerVars, parserVars, filterVars, fetcherVars, scannerVars, transcriptVars, tempVars, commentsVars>>

\* the setTimeout callback
OnTimeout ==
  /\ timer = "armed"
  /\ timer' = "fired"
  /\ timedOut' = TRUE
  /\ sigterms' = sigterms + 1
  /\ promise' = Settle(promise, [promise EXCEPT !.state = "rejected", !.error = "timeout"])
  /\ events' = Append(events, [kind |-> "timeout", code |-> "none"])
  /\ UNCHANGED <<pcW, spawnOptions, stdout, stderr>>
  /\ UNCHANGED <<samplerVars, cleanerVars, parserVars, filterVars, fetcherVars, scannerVars, transcriptVars, tempVars, commentsVars>>

\* child.on('error'): the spawn failed (first event of the child) or the
\* kill() of the timeout callback failed
OnError ==
  /\ pcW = "running"
  /\ \A k \in 1..Len(events) : events[k].kind # "error"
  /\ \E cause \in {"spawn", "kill"} :
       /\ cause = "spawn" => Len(events) = 1
       /\ cause = "kill" => sigterms > 0
       /\ events' = Append(events, [kind |-> "error", code |-> cause])
  /\ timer' = clearTimeout(timer)
  /\ promise' = IF ~timedOut
                 THEN Settle(promise, [promise EXCEPT !.state = "rejected", !.error = "error"])
                 ELSE promise
  /\ UNCHANGED <<pcW, spawnOptions, timedOut, stdout, stderr, sigterms>>
  /\ UNCHANGED <<samplerVars, cleanerVars, parserVars, filterVars, fetcherVars, scannerVars, transcriptVars, tempVars, commentsVars>>

\* child.on('close'): code "-2" after a failed spawn, "null" when SIGTERM
\* ended the child, otherwise the exit code
OnClose ==
  /\ pcW = "running"
  /\ \E code \in {"0", "1", "null", "-2"} :
       /\ code = "-2" <=> \E k \in 1..Len(events) : events[k] = [kind |-> "error", code |-> "spawn"]
       /\ code = "null" => sigterms > 0
       /\ events' = Append(events, [kind |-> "close", code |-> code])
       /\ promise' =
            IF timedOut THEN promise
            ELSE IF code = "0"
            THEN Settle(promise, [promise EXCEPT !.state = "resolved", !.stdout = stdout,
                                                 !.stderr = stderr])
            ELSE Settle(promise, [state |-> "rejected", error |-> "exit", code |-> code,
                                  stdout |-> stdout, stderr |-> stderr])
  /\ timer' = clearTimeout(timer)
  /\ pcW' = "closed"
  /\ UNCHANGED <<spawnOptions, timedOut, stdout, stderr, sigterms>>
  /\ UNCHANGED <<samplerVars, cleanerVars, parserVars, filterVars, fetcherVars, scannerVars, transcriptVars, tempVars, commentsVars>>

\* C24: the promise of spawnAsync is settled by the first of timeout, 'error'
\* and 'close' and by nothing later (a timeout rejection survives a later
\* close with code 0); SIGTERM is sent only by a timeout that comes before
\* any 'error' or 'close'; and without a timer the promise is resolved, with
\* everything the child wrote, exactly when the child has closed with code 0.
C24_FirstEventSettles ==
  LET decisive == {k \in 1..Len(events) : events[k].kind \in {"timeout", "error", "close"}}
      first == CHOOSE k \in decisive : \A j \in decisive : k <= j
      written(stream, upto) ==
        LET at == SelectSeq([k \in 1..Len(events) |-> k],
                            LAMBDA k : k < upto /\ events[k] = [kind |-> "data", code |-> stream])
        IN [k \in 1..Len(at) |-> at[k] - 1]
  IN /\ decisive = {} <=> promise.state = "pending"
     /\ decisive # {} =>
          CASE events[first].kind = "timeout" ->
                 promise.state = "rejected" /\ promise.error = "timeout"
            [] events[first].kind = "error" ->
                 promise.state = "rejected" /\ promise.error = "error"
            [] events[first] = [kind |-> "close", code |-> "0"] ->
                 /\ promise.state = "resolved"
                 /\ promise.stdout = written("stdout", first)
                 /\ promise.stderr = written("stderr", first)
            [] OTHER ->
                 /\ promise.state = "rejected" /\ promise.error = "exit"
                 /\ promise.code = events[first].code
     /\ sigterms = Cardinality({k \in decisive : events[k].kind = "timeout"})
     /\ \A k \in decisive : events[k].kind = "timeout" => k = first
     /\ timer = "none" =>
          /\ sigterms = 0
          /\ promise.state = "resolved" <=>
               \E k \in 1..Len(events) : events[k] = [kind |-> "close", code |-> "0"]
          /\ promise.state = "resolved" => promise.stdout = stdout /\ promise.stderr = stderr

\* C24 witness: the timer fired after one chunk, SIGTERM was sent once, the
\* child wrote again and then closed with code 0; the promise is still the
\* timeout rejection
C24_Witness ==
  /\ Len(events) = 5
  /\ events[2].kind = "data" /\ events[3].kind = "timeout" /\ events[4].kind = "data"
  /\ events[5] = [kind |-> "close", code |-> "0"]
  /\ promise.state = "rejected" /\ promise.error = "timeout"
  /\ sigterms = 1 /\ timer = "fired" /\ pcW = "closed"

(***************************************************************************)
(* getTranscriptViaYtDlp and downloadSubtitles: temporary directories      *)
(*                                                                         *)
(* Both methods are async and the server answers requests as they come, so *)
(* several calls are in flight at once and interleave at every await.  An  *)
(* action is the settling of one awaited call of one request, with the     *)
(* synchronous code up to its next await.  A directory is named by its     *)
(* mkdtemp prefix and, in place of the random suffix, by the request and   *)
(* attempt that made it.                                                   *)
(***************************************************************************)
\* a slip: the directory is left behind
RemoveDirSkipped(dirs, dir) == dirs
\* fs.rm(dir, { recursive: true, force: true }): no error when it is gone
RemoveDir(dirs, dir) == dirs \ {dir}

\* where a request goes on: "failed" is an await of the attempt that
\* rejected (the per-format catch of getTranscriptViaYtDlp moves to the next
\* of the three formats, and after the last to the clean-up of line 191, as
\* the loop does when no file was found; downloadSubtitles enters the
\* attempt's catch), "attemptDone" the end of one
\* iteration of the attempts loop (three attempts for 'auto' and 'ja', two
\* otherwise)
Continue(rq, event) ==
  IF event = "failed"
  THEN IF rq.method = "downloadSubtitles" THEN [rq EXCEPT !.pc = "sweep"]
       ELSE IF rq.format < 3 THEN [rq EXCEPT !.pc = "spawn", !.format = @ + 1]
       ELSE [rq EXCEPT !.pc = "cleanup"]
  ELSE IF rq.attempt < (IF rq.lang \in {"auto", "ja"} THEN 3 ELSE 2)
  THEN [rq EXCEPT !.pc = "mkdtemp", !.attempt = @ + 1, !.format = 1]
  ELSE [rq EXCEPT !.pc = "threw"]

\* a call of either method, up to the first mkdtemp
StartRequest(r) ==
  /\ requests[r].pc = "idle"
  /\ \E m \in {"getTranscriptViaYtDlp", "downloadSubtitles"}, l \in {"ja", "en"} :
       requests' = [requests EXCEPT ![r] = [@ EXCEPT !.method = m, !.lang = l, !.pc = "mkdtemp",
                                                      !.attempt = 1, !.format = 1]]
  /\ UNCHANGED <<tmpDirs, sweep>>
  /\ UNCHANGED <<samplerVars, cleanerVars, parserVars, filterVars, fetcherVars, scannerVars, transcriptVars, spawnVars, commentsVars>>

\* await fs.mkdtemp(...) settles.  On failure getTranscriptViaYtDlp's catch
\* removes what `let tempDir` still names, the previous attempt's directory.
MakeTempDir(r) ==
  LET rq == requests[r]
      dir == [prefix |-> IF rq.method = "downloadSubtitles" THEN "yt-subtitles-" ELSE "yt-transcript-",
              owner |-> r, attempt |-> rq.attempt]
  IN /\ rq.pc = "mkdtemp"
     /\ \E ok \in BOOLEAN :
          IF ok
          THEN /\ tmpDirs' = tmpDirs \cup {dir}
               /\ requests' = [requests EXCEPT ![r] = [rq EXCEPT !.tempDir = dir, !.pc = "spawn"]]
          ELSE /\ UNCHANGED tmpDirs
               /\ requests' = [requests EXCEPT ![r] =
                     IF rq.method = "downloadSubtitles" THEN [rq EXCEPT !.pc = "sweep"]
                     ELSE IF rq.tempDir.owner = 0 THEN Continue(rq, "attemptDone")
                     ELSE [rq EXCEPT !.pc = "catchRm"]]
     /\ UNCHANGED sweep
  /\ UNCHANGED <<samplerVars, cleanerVars, parserVars, filterVars, fetcherVars, scannerVars, transcriptVars, spawnVars, commentsVars>>

\* await spawnAsync('yt-dlp', args, { cwd: tempDir, timeout }) settles; a
\* working directory that no longer exists makes the spawn fail
RunYtDlp(r) ==
  LET rq == requests[r]
  IN /\ rq.pc = "spawn"
     /\ \E ok \in {b \in BOOLEAN : b => rq.tempDir \in tmpDirs} :
          requests' = [requests EXCEPT ![r] =
                         IF ok THEN [rq EXCEPT !.pc = "readdir"] ELSE Continue(rq, "failed")]
     /\ UNCHANGED <<tmpDirs, sweep>>
  /\ UNCHANGED <<samplerVars, cleanerVars, parserVars, filterVars, fetcherVars, scannerVars, transcriptVars, spawnVars, commentsVars>>

\* await fs.readdir(tempDir) settles: a subtitle file is there, or none is,
\* or the directory cannot be read (it cannot when it is gone)
ReadDir(r) ==
  LET rq == requests[r]
  IN /\ rq.pc = "readdir"
     /\ \E files \in {"subtitle", "none", "throws"} :
          /\ files # "throws" => rq.tempDir \in tmpDirs
          /\ requests' = [requests EXCEPT ![r] =
                CASE files = "subtitle" -> [rq EXCEPT !.pc = "readFile"]
                  [] files = "throws" -> Continue(rq, "failed")
                  [] OTHER -> IF rq.method = "downloadSubtitles" THEN [rq EXCEPT !.pc = "cleanup"]
                              ELSE Continue(rq, "failed")]
     /\ UNCHANGED <<tmpDirs, sweep>>
  /\ UNCHANGED <<samplerVars, cleanerVars, parserVars, filterVars, fetcherVars, scannerVars, transcriptVars, spawnVars, commentsVars>>

\* await fs.readFile(...) settles
ReadFile(r) ==
  LET rq == requests[r]
  IN /\ rq.pc = "readFile"
     /\ \E ok \in {b \in BOOLEAN : b => rq.tempDir \in tmpDirs} :
          requests' = [requests EXCEPT ![r] =
                         IF ok THEN [rq EXCEPT !.pc = "rmFound"] ELSE Continue(rq, "failed")]
     /\ UNCHANGED <<tmpDirs, sweep>>
  /\ UNCHANGED <<samplerVars, cleanerVars, parserVars, filterVars, fetcherVars, scannerVars, transcriptVars, spawnVars, commentsVars>>

\* await fs.rm(tempDir, ...) settles: after the file was read (then the
\* content is parsed and returned; a throwing parser is caught by the
\* per-format catch), after the formats loop, or in getTranscriptViaYtDlp's
\* catch
RemoveTempDir(r) ==
  LET rq == requests[r]
  IN /\ rq.pc \in {"rmFound", "cleanup", "catchRm"}
     /\ tmpDirs' = RemoveDir(tmpDirs, rq.tempDir)
     /\ \E parsedOk \in {b \in BOOLEAN : ~b => rq.pc = "rmFound" /\ rq.method = "getTranscriptViaYtDlp"} :
          requests' = [requests EXCEPT ![r] =
                         IF rq.pc # "rmFound" THEN Continue(rq, "attemptDone")
                         ELSE IF parsedOk THEN [rq EXCEPT !.pc = "returned"]
                         ELSE Continue(rq, "failed")]
     /\ UNCHANGED sweep
  /\ UNCHANGED <<samplerVars, cleanerVars, parserVars, filterVars, fetcherVars, scannerVars, transcriptVars, spawnVars, commentsVars>>

\* downloadSubtitles' catch: await fs.readdir(os.tmpdir()) settles and the
\* loop keeps the names that start with 'yt-subtitles-'; a failing readdir
\* is swallowed by catch {}
ListTempDirs(r) ==
  LET rq == requests[r]
  IN /\ rq.pc = "sweep"
     /\ \E ok \in BOOLEAN :
          LET names == IF ok THEN {d \in tmpDirs : d.prefix = "yt-subtitles-"} ELSE {}
          IN /\ sweep' = [sweep EXCEPT ![r] = names]
             /\ requests' = [requests EXCEPT ![r] =
                              IF names = {} THEN Continue(rq, "attemptDone")
                              ELSE [rq EXCEPT !.pc = "sweeping"]]
     /\ UNCHANGED tmpDirs
  /\ UNCHANGED <<samplerVars, cleanerVars, parserVars, filterVars, fetcherVars, scannerVars, transcriptVars, spawnVars, commentsVars>>

\* downloadSubtitles' catch: one await fs.rm(path.join(tmpDir, dir), ...) of
\* the loop settles
SweepTempDir(r) ==
  LET rq == requests[r]
  IN /\ rq.pc = "sweeping"
     /\ \E dir \in sweep[r] :
          /\ \A other \in sweep[r] : <<dir.owner, dir.attempt>> = <<other.owner, other.attempt>>
                                       \/ dir.owner < other.owner
                                       \/ (dir.owner = other.owner /\ dir.attempt < other.attempt)
          /\ tmpDirs' = RemoveDir(tmpDirs, dir)
          /\ sweep' = [sweep EXCEPT ![r] = @ \ {dir}]
          /\ requests' = [requests EXCEPT ![r] =
                           IF sweep[r] = {dir} THEN Continue(rq, "attemptDone") ELSE rq]
  /\ UNCHANGED <<samplerVars, cleanerVars, parserVars, filterVars, fetcherVars, scannerVars, transcriptVars, spawnVars, commentsVars>>

\* C25: a downloadSubtitles request that has made its temporary directory
\* and is running yt-dlp in it, listing it or reading its subtitle file still
\* has that directory: no other request removes it.
C25_OnlyOwnDirRemoved ==
  \A r \in 1..MaxRequests :
    (requests[r].method = "downloadSubtitles" /\ requests[r].pc \in {"spawn", "readdir", "readFile"})
      => requests[r].tempDir \in tmpDirs

\* C26: when a getTranscriptViaYtDlp call has returned or thrown, none of the
\* directories it made exists; while it runs, at most the directory of its
\* current attempt exists.
C26_TranscriptDirsRemoved ==
  \A r \in 1..MaxRequests : requests[r].method = "getTranscriptViaYtDlp" =>
    LET mine == {d \in tmpDirs : d.owner = r}
    IN /\ requests[r].pc \in {"returned", "threw"} => mine = {}
       /\ mine \subseteq {requests[r].tempDir}
       /\ requests[r].pc \in {"readdir", "readFile"} => mine = {requests[r].tempDir}

\* C26 witness: a getTranscriptViaYtDlp call returned a subtitle found by the
\* second format of its third attempt, so it made three directories, while a
\* downloadSubtitles request is in its catch block
C26_Witness ==
  \E r \in 1..MaxRequests, o \in 1..MaxRequests :
    /\ requests[r].method = "getTranscriptViaYtDlp" /\ requests[r].pc = "returned"
    /\ requests[r].attempt = 3 /\ requests[r].format = 2
    /\ requests[r].tempDir.attempt = 3
    /\ requests[o].method = "downloadSubtitles" /\ requests[o].pc = "sweeping"
    /\ \A d \in tmpDirs : d.owner # r

(***************************************************************************)
(* CommentHandler.getComments                                              *)
(*                                                                         *)
(* An action is the settling of one awaited API call with the synchronous  *)
(* code up to the next await.  The video is uploaded by channel "UCowner"; *)
(* videos.list answers with the video when the id it is asked for is the   *)
(* video's id, and with no items for any other string.  The pages of       *)
(* fetchAll mode are taken together (fetchAllComments pages separately).   *)
(***************************************************************************)
\* getComments(args) up to the first await: videoId is a bare id, a watch
\* URL or a short URL of the same video
CallGetComments ==
  /\ pcG = "idle"
  /\ \E id \in { <<100, 81, 119, 52, 119, 57, 87, 103, 88, 99, 81>>,
                  <<104, 116, 116, 112, 115, 58, 47, 47, 119, 119, 119, 46, 121, 111, 117, 116, 117, 98, 101, 46, 99, 111, 109, 47, 119, 97, 116, 99, 104, 63, 118, 61, 100, 81, 119, 52, 119, 57, 87, 103, 88, 99, 81>>,
                  <<104, 116, 116, 112, 115, 58, 47, 47, 121, 111, 117, 116, 117, 46, 98, 101, 47, 100, 81, 119, 52, 119, 57, 87, 103, 88, 99, 81>> },
        all \in BOOLEAN, nf \in BOOLEAN :
       commentsArgs' = [videoId |-> id, fetchAll |-> all, noFilter |-> nf]
  /\ pcG' = "lookup"
  /\ cleanVideoId' = <<>>
  /\ videoAuthor' = Undefined
  /\ fetchedComments' = <<>>
  /\ commentsResult' = <<>>
  /\ UNCHANGED <<samplerVars, cleanerVars, parserVars, filterVars, fetcherVars, scannerVars, transcriptVars, spawnVars, tempVars>>

\* await this.youtube.videos.list({ part, id: [...] }) settles: in getComments
\* it is asked for args.videoId as given, and Validator.validateVideoId runs
\* afterwards; in fetchAllComments it is asked for the clean id.  A rejection
\* is logged and leaves videoAuthorChannelId undefined.
AuthorLookupSettles ==
  LET videoId == commentsArgs.videoId
      \* /(?:v=|\/)([\w-]{11})/
      idPattern == Cat(<<Alt(<<Lit(<<118, 61>>), Chr({47})>>),
                         Rep(Chr(Letter \cup Digit \cup {95, 45}), 11, 11)>>)
      matches == {i \in 0..Len(videoId) : Ends(idPattern, videoId, i) # {}}
      index == CHOOSE i \in matches : \A j \in matches : i <= j
      validateVideoId ==
        IF (Includes(videoId, <<121, 111, 117, 116, 117, 98, 101, 46, 99, 111, 109>>)
              \/ Includes(videoId, <<121, 111, 117, 116, 117, 46, 98, 101>>)) /\ matches # {}
        THEN Slice(videoId, MatchEnd(idPattern, videoId, index) - 11,
                   MatchEnd(idPattern, videoId, index))
        ELSE videoId
      asked == IF pcG = "lookup" THEN videoId ELSE cleanVideoId
  IN /\ pcG \in {"lookup", "lookupAll"}
     /\ \E outcome \in {"response", "throws"} :
          videoAuthor' = IF outcome = "response" /\ asked = validateVideoId
                         THEN "UCowner" ELSE Undefined
     /\ cleanVideoId' = validateVideoId
     /\ pcG' = IF pcG = "lookup" /\ commentsArgs.fetchAll THEN "lookupAll" ELSE "listing"
     /\ UNCHANGED <<commentsArgs, fetchedComments, commentsResult>>
  /\ UNCHANGED <<samplerVars, cleanerVars, parserVars, filterVars, fetcherVars, scannerVars, transcriptVars, spawnVars, tempVars>>

\* await this.youtube.commentThreads.list(params) settles, the comments are
\* mapped and, unless noFilter, CommentFilter.filterComments is applied with
\* { enableFiltering: true }
CommentsListSettles ==
  /\ pcG = "listing"
  /\ \E outcome \in {"response", "throws"}, cs \in ListsOf(ThreadKinds, MaxComments) :
       IF outcome = "throws"
       THEN /\ cs = <<>>
            /\ pcG' = "threw"
            /\ UNCHANGED <<fetchedComments, commentsResult>>
       ELSE LET filtered == filterComments(cs, [DefaultOptions EXCEPT !.enableFiltering = "true"],
                                           videoAuthor)
            IN /\ pcG' = "returned"
               /\ fetchedComments' = cs
               /\ commentsResult' =
                    IF commentsArgs.noFilter
                    THEN [k \in 1..Len(cs) |-> [position |-> k, comment |-> cs[k]]]
                    ELSE [j \in 1..Len(filtered.items) |->
                            [position |-> filtered.items[j],
                             comment |-> filtered.heap[filtered.items[j]]]]
  /\ UNCHANGED <<commentsArgs, cleanVideoId, videoAuthor>>
  /\ UNCHANGED <<samplerVars, cleanerVars, parserVars, filterVars, fetcherVars, scannerVars, transcriptVars, spawnVars, tempVars>>

\* C27: with filtering enabled, every fetched comment written by the
\* video's uploader is among the returned comments, in single-page and in
\* fetchAll mode, for a bare id and for a URL.
C27_UploaderCommentsReturned ==
  (pcG = "returned" /\ ~commentsArgs.noFilter) =>
    \A k \in 1..Len(fetchedComments) :
      fetchedComments[k].authorChannelId = "UCowner" =>
        \E j \in 1..Len(commentsResult) : commentsResult[j].position = k

(***************************************************************************)
(* Specifications: one per component, the other components staying idle    *)
(***************************************************************************)
\* no call is in progress in any component
Init ==
  /\ pcS = "idle"
  /\ segments = <<>>
  /\ mode = "full"
  /\ maxSegments = 0
  /\ result = NoParts(<<>>, FALSE)
  /\ pcC = "idle"
  /\ rawText = <<>>
  /\ cleanedOnce = <<>>
  /\ cleanedTwice = <<>>
  /\ pcP = "idle"
  /\ cues = <<>>
  /\ lines = <<>>
  /\ lineIdx = 0
  /\ parsed = <<>>
  /\ lastText = <<>>
  /\ pcF = "idle"
  /\ comment = [text |-> <<>>, hasText |-> FALSE, authorChannelId |-> Undefined]
  /\ options = DefaultOptions
  /\ videoAuthorChannelId = Undefined
  /\ shouldFilter = FALSE
  /\ commentsAtCall = <<>>
  /\ comments = <<>>
  /\ returned = [same |-> TRUE, items |-> <<>>]
  /\ stats = [total |-> 0, filtered |-> 0, kept |-> 0, filterRate |-> <<>>]
  /\ pcA = "idle"
  /\ fetchArgs = [lang |-> Undefined, noFilter |-> FALSE]
  /\ pageCount = 0
  /\ nextPageToken = Undefined
  /\ response = [error |-> "none", hasItems |-> FALSE, items |-> 0, matching |-> 0, nextPageToken |-> Undefined]
  /\ allComments = 0
  /\ fetchResult = NoFetchResult
  /\ lastIndex = <<0, 0, 0, 0, 0, 0, 0, 0>>
  /\ scanCall = [comment |-> [text |-> <<>>, hasText |-> FALSE, authorChannelId |-> Undefined],
                 options |-> DefaultOptions, videoAuthorChannelId |-> Undefined]
  /\ scanVerdict = FALSE
  /\ pcT = "idle"
  /\ transcriptArgs = [lang |-> "ja", mode |-> "full"]
  /\ attempts = <<>>
  /\ ytDlpCalls = 0
  /\ transcriptResult = "none"
  /\ pcW = "idle"
  /\ spawnOptions = [given |-> FALSE, timeout |-> 0]
  /\ timer = "none"
  /\ timedOut = FALSE
  /\ stdout = <<>>
  /\ stderr = <<>>
  /\ promise = [state |-> "pending", error |-> "none", code |-> "none", stdout |-> <<>>, stderr |-> <<>>]
  /\ sigterms = 0
  /\ events = <<>>
  /\ tmpDirs = {}
  /\ requests = [r \in 1..MaxRequests |->
                   [method |-> "none", lang |-> "ja", pc |-> "idle", attempt |-> 0, format |-> 0,
                    tempDir |-> [prefix |-> "none", owner |-> 0, attempt |-> 0]]]
  /\ sweep = [r \in 1..MaxRequests |-> {}]
  /\ pcG = "idle"
  /\ commentsArgs = [videoId |-> <<>>, fetchAll |-> FALSE, noFilter |-> FALSE]
  /\ cleanVideoId = <<>>
  /\ videoAuthor = Undefined
  /\ fetchedComments = <<>>
  /\ commentsResult = <<>>

SpecSampler == Init /\ [][NextSampler]_vars
SpecCleaner == Init /\ [][NextCleaner]_vars
SpecParser == Init /\ [][NextParser]_vars
SpecFilter == Init /\ [][NextFilter]_vars
\* every awaited request settles and the code after the loop runs
SpecFetcher ==
  Init /\ [][NextFetcher]_vars /\ WF_vars(FetchPage) /\ WF_vars(FinishFetch)
SpecScanner == Init /\ [][ScanComment]_vars
SpecTranscript ==
  Init /\ [][CallGetTranscript \/ FetchTranscriptSettles \/ YtDlpSettles \/ ReturnTranscript]_vars
SpecSpawn == Init /\ [][CallSpawnAsync \/ OnData \/ OnTimeout \/ OnError \/ OnClose]_vars
SpecComments == Init /\ [][CallGetComments \/ AuthorLookupSettles \/ CommentsListSettles]_vars
SpecTempDirs ==
  Init /\ [][\E r \in 1..MaxRequests :
               \/ StartRequest(r) \/ MakeTempDir(r) \/ RunYtDlp(r) \/ ReadDir(r) \/ ReadFile(r)
               \/ RemoveTempDir(r) \/ ListTempDirs(r) \/ SweepTempDir(r)]_vars

====
